---------------------------- MODULE Spec2Model ----------------------------
(***************************************************************************)
(* A model of the angstrom-santa-claus guest: the streaming Keccak-256     *)
(* sponge (lib/src/keccak.rs), the encoded header lens                     *)
(* (lib/src/header_lens.rs), the byte reader (lib/src/reader.rs) and the   *)
(* guest's header walk and reward aggregation (program/src/main.rs).       *)
(*                                                                         *)
(* Bytes.  A byte is a finite set of atoms read as their XOR (an element   *)
(* of a GF(2) vector space).  Atoms 0..7 are the eight bits of a concrete  *)
(* byte, so B(0x81) = {0, 7}.  Every other atom names one output byte of   *)
(* the permutation keccakf (tiny_keccak), which is kept uninterpreted:     *)
(* atom 8 + 200*(id-1) + i is byte i of keccakf applied to the id-th       *)
(* distinct state it was applied to.  XOR is symmetric difference, a       *)
(* write is assignment, and two digests are equal exactly when the         *)
(* permutation was applied to equal states.                                *)
(***************************************************************************)
EXTENDS Integers, Sequences, FiniteSets, TLC

\* ------------------------------------------------------------------ bytes

\* keccak.rs constants
STATE_BYTES == 200
WORD_BYTES == 4
DELIM == 1
BLOCK_SIZE == 136
HASH_BYTES == 32

Pow2(i) == CASE i = 0 -> 1 [] i = 1 -> 2 [] i = 2 -> 4 [] i = 3 -> 8
             [] i = 4 -> 16 [] i = 5 -> 32 [] i = 6 -> 64 [] i = 7 -> 128

\* the concrete bytes 0..255 as their sets of bits
ByteBits == [n \in 0..255 |-> {i \in 0..7 : (n \div Pow2(i)) % 2 = 1}]

B(n) == ByteBits[n]

IsConcrete(b) == b \subseteq 0..7

BitVal(b, i) == IF i \in b THEN Pow2(i) ELSE 0

\* the value of a concrete byte; -1 for a byte that holds permutation output
Val(b) ==
    IF IsConcrete(b)
    THEN BitVal(b, 0) + BitVal(b, 1) + BitVal(b, 2) + BitVal(b, 3)
         + BitVal(b, 4) + BitVal(b, 5) + BitVal(b, 6) + BitVal(b, 7)
    ELSE -1

\* u8 ^ u8
Xor(a, b) == (a \ b) \cup (b \ a)

ZeroState == [i \in 0..(STATE_BYTES - 1) |-> {}]

\* ------------------------------------------------ the permutation keccakf

\* The index of state st in the table of the states keccakf was applied to,
\* Len(tbl) + 1 when it is new.
PermId(tbl, st) ==
    IF \E j \in 1..Len(tbl) : tbl[j] = st
    THEN CHOOSE j \in 1..Len(tbl) : tbl[j] = st
    ELSE Len(tbl) + 1

PermOut(id) == [i \in 0..(STATE_BYTES - 1) |-> {8 + STATE_BYTES * (id - 1) + i}]

\* Keccak256::permute: keccakf on the 200 state bytes.  k is the sponge
\* together with the table of the permutation's arguments so far.
permute(k) ==
    LET id == PermId(k.tbl, k.state)
    IN [k EXCEPT !.state = PermOut(id),
                 !.tbl = IF id > Len(k.tbl) THEN Append(k.tbl, k.state) ELSE k.tbl]

\* ------------------------------------------------------------- Keccak256

\* Keccak256::default, over a given permutation table
NewKeccak(tbl) ==
    [state |-> ZeroState, offset |-> 0, first_block |-> TRUE, tbl |-> tbl]

\* Keccak256::absorb
absorb(first, dst, src) == IF first THEN src ELSE Xor(dst, src)

\* Keccak256::absorb_block: the block's 34 little-endian words into state
\* words 0..33, then permute.  Word w covers state bytes 4w..4w+3.
absorb_block(k, first, block) ==
    permute([k EXCEPT !.state =
        [i \in 0..(STATE_BYTES - 1) |->
            IF i \div WORD_BYTES < BLOCK_SIZE \div WORD_BYTES
            THEN absorb(first, k.state[i], block[i + 1])
            ELSE k.state[i]]])

\* Keccak256::absorb_aligned: the same words read through an aligned
\* pointer; on the little-endian guest a native word read is from_le_bytes.
absorb_aligned(k, first, block) ==
    permute([k EXCEPT !.state =
        [i \in 0..(STATE_BYTES - 1) |->
            IF i \div WORD_BYTES < BLOCK_SIZE \div WORD_BYTES
            THEN absorb(first, k.state[i], block[i + 1])
            ELSE k.state[i]]])

Drop(s, n) == SubSeq(s, n + 1, Len(s))
Take(s, n) == SubSeq(s, 1, n)


\* a mutant of UpdatePartial: the offset restarts at the input's length
UpdatePartial_Restart(k, input) ==
    [k EXCEPT !.state =
                [i \in 0..(STATE_BYTES - 1) |->
                    IF i < Len(input)
                    THEN absorb(k.first_block, k.state[i], input[i + 1])
                    ELSE k.state[i]],
              !.offset = Len(input)]

\* update, lines 104-111: the input does not fill the block.  The zip
\* starts at state byte 0.
UpdatePartial(k, input) ==
    [k EXCEPT !.state =
                [i \in 0..(STATE_BYTES - 1) |->
                    IF i < Len(input)
                    THEN absorb(k.first_block, k.state[i], input[i + 1])
                    ELSE k.state[i]],
              !.offset = k.offset + Len(input)]

\* update, lines 114-125: complete the open block from state byte offset.
UpdateComplete(k, left) ==
    [permute([k EXCEPT !.state =
        [i \in 0..(STATE_BYTES - 1) |->
            IF i >= k.offset /\ i - k.offset < Len(left)
            THEN absorb(k.first_block, k.state[i], left[i - k.offset + 1])
            ELSE k.state[i]]])
     EXCEPT !.first_block = FALSE]

\* a mutant of UpdateFirst: the flag is left set
UpdateFirst_KeepFlag(k, block, aligned) ==
    IF aligned THEN absorb_aligned(k, TRUE, block) ELSE absorb_block(k, TRUE, block)

\* update, lines 129-140: the first whole block of a fresh sponge is written.
UpdateFirst(k, block, aligned) ==
    [(IF aligned THEN absorb_aligned(k, TRUE, block)
                 ELSE absorb_block(k, TRUE, block))
     EXCEPT !.first_block = FALSE]

\* update, lines 143-159: the remaining whole blocks; returns the sponge
\* and the input left over.
RECURSIVE UpdateBlocks(_, _, _)
UpdateBlocks(k, input, aligned) ==
    IF Len(input) >= BLOCK_SIZE
    THEN UpdateBlocks(IF aligned
                      THEN absorb_aligned(k, FALSE, Take(input, BLOCK_SIZE))
                      ELSE absorb_block(k, FALSE, Take(input, BLOCK_SIZE)),
                      Drop(input, BLOCK_SIZE), aligned)
    ELSE [k |-> k, input |-> input]

\* a mutant of UpdateTail: the tail is written, as in first-block mode
UpdateTail_Written(k, input) ==
    [k EXCEPT !.state =
                [i \in 0..(STATE_BYTES - 1) |->
                    IF i < Len(input) THEN input[i + 1] ELSE k.state[i]],
              !.offset = Len(input)]

\* update, lines 161-165: the tail is XORed from state byte 0.
UpdateTail(k, input) ==
    [k EXCEPT !.state =
                [i \in 0..(STATE_BYTES - 1) |->
                    IF i < Len(input) THEN Xor(k.state[i], input[i + 1])
                    ELSE k.state[i]],
              !.offset = Len(input)]

\* Keccak256::update; aligned is input.as_ptr().align_offset(WORD_BYTES) = 0
\* taken after the open block was completed.
update(k, input, aligned) ==
    LET rem == BLOCK_SIZE - k.offset
    IN  IF Len(input) < rem
        THEN UpdatePartial(k, input)
        ELSE LET k1 == IF k.offset # 0 THEN UpdateComplete(k, Take(input, rem)) ELSE k
                 in1 == IF k.offset # 0 THEN Drop(input, rem) ELSE input
                 whole == k1.first_block /\ Len(in1) >= BLOCK_SIZE
                 k2 == IF whole THEN UpdateFirst(k1, Take(in1, BLOCK_SIZE), aligned) ELSE k1
                 in2 == IF whole THEN Drop(in1, BLOCK_SIZE) ELSE in1
                 r == UpdateBlocks(k2, in2, aligned)
             IN  UpdateTail(r.k, r.input)

\* a mutant of pad: the rate bytes past offset are not zeroed in
\* first-block mode
pad_NoZeroing(k) ==
    LET d == [k.state EXCEPT ![k.offset] = Xor(k.state[k.offset], B(DELIM))]
    IN  [k EXCEPT !.state = [d EXCEPT ![BLOCK_SIZE - 1] = Xor(d[BLOCK_SIZE - 1], B(128))]]

\* Keccak256::pad
pad(k) ==
    LET z == [i \in 0..(STATE_BYTES - 1) |->
                 IF k.first_block /\ i >= k.offset /\ i < BLOCK_SIZE THEN {}
                 ELSE k.state[i]]
        d == [z EXCEPT ![k.offset] = Xor(z[k.offset], B(DELIM))]
    IN  [k EXCEPT !.state = [d EXCEPT ![BLOCK_SIZE - 1] = Xor(d[BLOCK_SIZE - 1], B(128))]]

\* a mutant of reset: the offset is left where the message ended
reset_KeepOffset(k) ==
    [k EXCEPT !.state = [i \in 0..(STATE_BYTES - 1) |->
                            IF i \div WORD_BYTES >= BLOCK_SIZE \div WORD_BYTES
                            THEN {} ELSE k.state[i]],
              !.first_block = TRUE]

\* Keccak256::reset
reset(k) ==
    [k EXCEPT !.state = [i \in 0..(STATE_BYTES - 1) |->
                            IF i \div WORD_BYTES >= BLOCK_SIZE \div WORD_BYTES
                            THEN {} ELSE k.state[i]],
              !.first_block = TRUE,
              !.offset = 0]

\* Keccak256::finalize_and_reset: the sponge after it and the 32 bytes
\* written to output.
finalize_and_reset(k) ==
    LET p == permute(pad(k))
    IN  [k |-> reset(p), out |-> [i \in 1..HASH_BYTES |-> p.state[i - 1]]]

\* Keccak256::complete
complete(k, input, aligned) == finalize_and_reset(update(k, input, aligned))

\* ------------------------------------------------- reference Keccak-256

\* pad10*1 with domain byte 0x01: the message, 0x01, zeros, 0x80 at rate-1
RefPadded(msg) ==
    LET n == Len(msg)
        total == ((n \div BLOCK_SIZE) + 1) * BLOCK_SIZE
    IN  [i \in 1..total |->
            IF i <= n THEN msg[i]
            ELSE Xor(IF i = n + 1 THEN B(DELIM) ELSE {},
                     IF i = total THEN B(128) ELSE {})]

RECURSIVE RefAbsorb(_, _, _)
RefAbsorb(tbl, st, padded) ==
    IF Len(padded) = 0 THEN [tbl |-> tbl, st |-> st]
    ELSE LET x == [i \in 0..(STATE_BYTES - 1) |->
                      IF i < BLOCK_SIZE THEN Xor(st[i], padded[i + 1]) ELSE st[i]]
             id == PermId(tbl, x)
         IN  RefAbsorb(IF id > Len(tbl) THEN Append(tbl, x) ELSE tbl,
                       PermOut(id), Drop(padded, BLOCK_SIZE))

\* Keccak-256 of msg as the sponge construction over the same permutation:
\* the digest, and the permutation table extended by what it applied.
RefKeccak(tbl, msg) ==
    LET r == RefAbsorb(tbl, ZeroState, RefPadded(msg))
    IN  [tbl |-> r.tbl, out |-> [i \in 1..HASH_BYTES |-> r.st[i - 1]]]


\* ---------------------------------------------------------------- Reader

\* Reader::read_next(size): the slice and the reader after it; an
\* out-of-range slice panics.
read_next(reader, size) ==
    IF size > Len(reader) THEN [panic |-> TRUE, slice |-> <<>>, reader |-> reader]
    ELSE [panic |-> FALSE, slice |-> Take(reader, size), reader |-> Drop(reader, size)]

\* Reader::read_byte
read_byte(reader) ==
    IF Len(reader) = 0 THEN [panic |-> TRUE, b |-> {}, reader |-> reader]
    ELSE [panic |-> FALSE, b |-> reader[1], reader |-> Tail(reader)]

\* ------------------------------------------------------ EncodedHeaderLens

RLP_STR_OFFSET == 128
RLP_LIST_OFFSET == 192
RLP_MAX_PACKED_LEN == 55

\* the big-endian value of concrete bytes
RECURSIVE BigEndian(_)
BigEndian(bs) ==
    IF Len(bs) = 0 THEN 0
    ELSE 256 * BigEndian(Take(bs, Len(bs) - 1)) + Val(bs[Len(bs)])

\* bytes of a usize on the guest's target
USIZE_BYTES == 4

\* no reader holds more bytes than this
MaxReaderLen == 65535

\* read_from, lines 26-29: length = 256 * length + byte over the length
\* bytes, in usize arithmetic that wraps: only the last USIZE_BYTES bytes
\* count.  A value no reader can hold is given as MaxReaderLen + 1.
UsizeBE(bs) ==
    LET low == IF Len(bs) > USIZE_BYTES THEN Drop(bs, Len(bs) - USIZE_BYTES) ELSE bs
    IN  IF \E i \in 1..(Len(low) - 2) : Val(low[i]) # 0
        THEN MaxReaderLen + 1
        ELSE BigEndian(low)

\* a mutant of validate_small_fixed_field: any head byte passes
validate_small_fixed_field_AnyHead(N, payload_reader) ==
    IF Len(payload_reader) = 0 THEN [tag |-> "panic", reader |-> payload_reader]
    ELSE LET r == read_next(payload_reader, N + 1)
         IN  [tag |-> IF r.panic THEN "panic" ELSE "ok", reader |-> r.reader]

\* EncodedHeaderLens::validate_small_fixed_field::<N>: "ok" and the reader
\* advanced by N + 1, "err" on another head byte, "panic" when the reader is
\* empty (payload_reader[0]) or shorter than N + 1 (read_next).
validate_small_fixed_field(N, payload_reader) ==
    IF Len(payload_reader) = 0 THEN [tag |-> "panic", reader |-> payload_reader]
    ELSE IF Val(payload_reader[1]) # RLP_STR_OFFSET + N
         THEN [tag |-> "err", reader |-> payload_reader]
         ELSE LET r == read_next(payload_reader, N + 1)
              IN  [tag |-> IF r.panic THEN "panic" ELSE "ok", reader |-> r.reader]

\* the six validated fields: parent_hash, ommers_hash, beneficiary,
\* state_root, transactions_root, receipts_root
FixedFields == <<32, 32, 20, 32, 32, 32>>

\* read_from, lines 36-41: the six validations in order, stopping at the
\* first that does not return Ok.
RECURSIVE ValidateFrom(_, _)
ValidateFrom(f, payload_reader) ==
    IF f > Len(FixedFields) THEN "ok"
    ELSE LET v == validate_small_fixed_field(FixedFields[f], payload_reader)
         IN  IF v.tag = "ok" THEN ValidateFrom(f + 1, v.reader) ELSE v.tag

\* EncodedHeaderLens::read_from: tag "ok" with the lens, "err" for Err(..),
\* "panic" for an out-of-bounds index or slice; and the reader after it.
read_from(reader) ==
    IF Len(reader) = 0 THEN [tag |-> "panic", reader |-> reader]
    ELSE
    LET head == Val(reader[1]) IN
    IF ~(head > RLP_LIST_OFFSET + RLP_MAX_PACKED_LEN)
    THEN [tag |-> "err", reader |-> reader]
    ELSE
    LET length_bytes == head - RLP_LIST_OFFSET - RLP_MAX_PACKED_LEN IN
    IF Len(reader) < 1 + length_bytes THEN [tag |-> "panic", reader |-> reader]
    ELSE
    LET length == UsizeBE(SubSeq(reader, 2, 1 + length_bytes))
        payload_offset == 1 + length_bytes
        carved == read_next(reader, payload_offset + length)
    IN  IF carved.panic THEN [tag |-> "panic", reader |-> reader]
        ELSE LET v == ValidateFrom(1, Drop(carved.slice, payload_offset))
             IN  IF v = "ok"
                 THEN [tag |-> "ok", reader |-> carved.reader,
                       lens |-> [encoded |-> carved.slice,
                                 payload_offset |-> payload_offset]]
                 ELSE [tag |-> v, reader |-> carved.reader]

\* a mutant of receipts_root: the sixth field's head byte is not skipped
receipts_root_NoHead(lens) ==
    SubSeq(lens.encoded, lens.payload_offset + 33 + 33 + 21 + 33 + 33 + 1,
           lens.payload_offset + 33 + 33 + 21 + 33 + 33 + 32)

\* EncodedHeaderLens::parent_hash
parent_hash(lens) ==
    SubSeq(lens.encoded, lens.payload_offset + 1 + 1, lens.payload_offset + 1 + 32)

\* EncodedHeaderLens::receipts_root
receipts_root(lens) ==
    SubSeq(lens.encoded, lens.payload_offset + 33 + 33 + 21 + 33 + 33 + 1 + 1,
           lens.payload_offset + 33 + 33 + 21 + 33 + 33 + 1 + 32)

\* EncodedHeaderLens::hash: keccak256 of the encoded slice
LensHash(tbl, lens) == RefKeccak(tbl, lens.encoded)

\* --------------------------------------------------- RLP header encoding

\* the big-endian bytes of n without leading zeros
RECURSIVE BeBytes(_)
BeBytes(n) == IF n < 256 THEN <<B(n)>> ELSE BeBytes(n \div 256) \o <<B(n % 256)>>

\* n as len big-endian bytes
BeFixed(n, len) ==
    LET bs == BeBytes(n) IN [i \in 1..(len - Len(bs)) |-> B(0)] \o bs

\* alloy_rlp::Header::encode for a list of the given payload length
RlpListHeader(len) ==
    IF len <= RLP_MAX_PACKED_LEN THEN <<B(RLP_LIST_OFFSET + len)>>
    ELSE <<B(RLP_LIST_OFFSET + RLP_MAX_PACKED_LEN + Len(BeBytes(len)))>> \o BeBytes(len)

\* a fixed-size byte string (B256, Address) as an RLP string
RlpFixed(bs) == <<B(RLP_STR_OFFSET + Len(bs))>> \o bs

\* PartialHeader::header_payload_length / encode: the list header, the six
\* fixed fields, then the remaining fields verbatim (tail)
HeaderPayload(h) ==
    RlpFixed(h.parent_hash) \o RlpFixed(h.ommers_hash) \o RlpFixed(h.beneficiary)
    \o RlpFixed(h.state_root) \o RlpFixed(h.transactions_root)
    \o RlpFixed(h.receipts_root) \o h.tail

EncodeHeader(h) == RlpListHeader(Len(HeaderPayload(h))) \o HeaderPayload(h)

\* ------------------------------------------------- receipts-trie verifier
\* Every node hash is described by the sequence of slices the verifier passes
\* to the hasher's update, in order; Chunks* operators return that sequence
\* with the proof reader after it, and panic when a read ran off the proof.

PATH_FLAG_MASK == 32
LEAF_PATH_FLAG == 32
EXTENSION_PATH_FLAG == 0
ODD_NIBBLES_FLAG == 16
NIBBLE_MASK == 15
PROOF_PART_TYPE_MASK == 32
EXTENSION_NODE_FLAG == 0
BRANCH_NODE_FLAG == 32
WEIRD_BRANCHES_FLAG == 16
BRANCH_NODE_INDEX_MASK == 15

\* v & mask for a mask of one bit or of the low bits
BitAnd(v, mask) ==
    IF mask \in {15, 255} THEN v % (mask + 1) ELSE ((v \div mask) % 2) * mask

\* alloy_rlp::length_of_length
length_of_length(payload_length) ==
    IF payload_length < 56 THEN 1 ELSE 1 + Len(BeBytes(payload_length))

encoded_length(payload_length) == length_of_length(payload_length) + payload_length

\* encode_header: one update for the head byte, one more for the length bytes
encode_header(offset, payload_length) ==
    IF payload_length < 56
    THEN << <<B((offset + payload_length) % 256)>> >>
    ELSE LET length_bytes_length == length_of_length(payload_length) - 1
         IN  << <<B((offset + 55 + length_bytes_length) % 256)>>, BeBytes(payload_length) >>

encode_list_header(payload_length) == encode_header(RLP_LIST_OFFSET, payload_length)
encode_str_header(payload_length) == encode_header(RLP_STR_OFFSET, payload_length)

NodePanic(proof) == [panic |-> TRUE, chunks |-> <<>>, proof |-> proof]

\* a mutant of the key's encoded length: the string header is always counted
encoded_key_length_WithHeader(key_bytes) == encoded_length(key_bytes + 1)

\* hash_node_with_path, line 158: the encoded length of the key
encoded_key_length(key_bytes) ==
    encoded_length(key_bytes + 1) - (IF key_bytes = 0 THEN 1 ELSE 0)

\* hash_node_with_path up to the hasher's finalize
ChunksNodeWithPath(proof, path_flag, encoded_internal_node) ==
    LET r0 == read_byte(proof) IN
    IF r0.panic THEN NodePanic(proof) ELSE
    LET leaf_key_nibbles == Val(r0.b)
        key_bytes == leaf_key_nibbles \div 2
        encoded_receipt_length == encoded_length(Len(encoded_internal_node))
        rlp_list_payload_length == encoded_key_length(key_bytes) + encoded_receipt_length
        odd == leaf_key_nibbles % 2 # 0
        r1 == IF odd THEN read_byte(r0.reader) ELSE [panic |-> FALSE, b |-> {}, reader |-> r0.reader]
    IN
    IF r1.panic THEN NodePanic(proof) ELSE
    LET first_byte ==
            IF odd THEN path_flag + ODD_NIBBLES_FLAG + BitAnd(Val(r1.b), NIBBLE_MASK)
            ELSE path_flag
        r2 == read_next(r1.reader, key_bytes)
    IN
    IF r2.panic THEN NodePanic(proof) ELSE
    [panic |-> FALSE,
     proof |-> r2.reader,
     chunks |->
        encode_list_header(rlp_list_payload_length)
        \o (IF key_bytes >= 1 \/ first_byte > 127 \/ first_byte = 0
            THEN encode_str_header(key_bytes + 1) ELSE <<>>)
        \o << <<B(first_byte)>>, r2.slice >>
        \o encode_str_header(Len(encoded_internal_node))
        \o <<encoded_internal_node>>]

\* u32::from_be_bytes of four read_byte calls
ReadU32(proof) ==
    IF Len(proof) < 4 THEN [panic |-> TRUE, v |-> 0, reader |-> proof]
    ELSE [panic |-> FALSE, v |-> UsizeBE(Take(proof, 4)), reader |-> Drop(proof, 4)]

\* hash_branch, one turn of a loop over the children: child i is absent
\* (an empty string), or a 32-byte string read from the proof, or in a weird
\* branch a string whose length is read first
ChunksChild(proof, weird, branch_map, i) ==
    IF BitAnd(branch_map, 2^i) = 0
    THEN [panic |-> FALSE, chunks |-> encode_str_header(0), proof |-> proof]
    ELSE IF weird
    THEN LET l == ReadU32(proof)
             c == read_next(l.reader, l.v)
         IN  IF l.panic \/ c.panic THEN NodePanic(proof)
             ELSE [panic |-> FALSE, proof |-> c.reader,
                   chunks |-> encode_str_header(l.v) \o <<c.slice>>]
    ELSE LET c == read_next(proof, 32)
         IN  IF c.panic THEN NodePanic(proof)
             ELSE [panic |-> FALSE, proof |-> c.reader,
                   chunks |-> encode_str_header(32) \o <<c.slice>>]

\* hash_branch, the loops over the children i in lo..hi-1 in ascending
\* order (the range is halved to keep the evaluation shallow); only the
\* children after the index take the weird form
RECURSIVE ChunksChildren(_, _, _, _, _)
ChunksChildren(proof, weird, branch_map, lo, hi) ==
    IF lo >= hi THEN [panic |-> FALSE, chunks |-> <<>>, proof |-> proof]
    ELSE IF hi = lo + 1 THEN ChunksChild(proof, weird, branch_map, lo)
    ELSE
    LET mid == (lo + hi) \div 2
        left == ChunksChildren(proof, weird, branch_map, lo, mid)
    IN  IF left.panic THEN NodePanic(proof)
        ELSE LET right == ChunksChildren(left.proof, weird, branch_map, mid, hi)
             IN  IF right.panic THEN NodePanic(proof)
                 ELSE [panic |-> FALSE, proof |-> right.proof,
                       chunks |-> left.chunks \o right.chunks]

\* branch_map.count_ones()
count_ones(branch_map) == Cardinality({i \in 0..15 : BitAnd(branch_map, 2^i) # 0})

\* a mutant of the branch's payload length: the value's byte is left out
BranchPayloadLength_NoValue(branch_map) == count_ones(branch_map) * 32 + 16

\* hash_branch, line 212: the payload length of a branch that is not weird
BranchPayloadLength(branch_map) == count_ones(branch_map) * 32 + 17

\* hash_branch up to the hasher's finalize
ChunksBranch(proof, weird_branches, index, last_root) ==
    IF Len(proof) < 2 THEN NodePanic(proof) ELSE
    LET branch_map == BigEndian(Take(proof, 2))
        pl == IF weird_branches THEN ReadU32(Drop(proof, 2))
              ELSE [panic |-> FALSE, v |-> BranchPayloadLength(branch_map),
                    reader |-> Drop(proof, 2)]
    IN
    IF pl.panic THEN NodePanic(proof) ELSE
    LET before == ChunksChildren(pl.reader, FALSE, branch_map, 0, index) IN
    IF before.panic THEN NodePanic(proof) ELSE
    LET after == ChunksChildren(before.proof, weird_branches, branch_map, index + 1, 16) IN
    IF after.panic THEN NodePanic(proof) ELSE
    [panic |-> FALSE,
     proof |-> after.proof,
     chunks |->
        encode_list_header(pl.v)
        \o before.chunks
        \o encode_str_header(32) \o <<last_root>>
        \o after.chunks
        \o encode_str_header(0)]

\* one step of the loop of receipt_trie_root_from_proof: the control byte
\* and the node it announces
ChunksStep(proof, current_root) ==
    LET r == read_byte(proof) IN
    IF r.panic THEN NodePanic(proof) ELSE
    LET control_byte == Val(r.b) IN
    IF BitAnd(control_byte, PROOF_PART_TYPE_MASK) = BRANCH_NODE_FLAG
    THEN ChunksBranch(r.reader, BitAnd(control_byte, WEIRD_BRANCHES_FLAG) # 0,
                      BitAnd(control_byte, BRANCH_NODE_INDEX_MASK), current_root)
    ELSE ChunksNodeWithPath(r.reader, EXTENSION_PATH_FLAG, current_root)

\* the slices one after another (the sequence is halved to keep the
\* evaluation shallow)
RECURSIVE Flatten(_)
Flatten(chunks) ==
    IF Len(chunks) = 0 THEN <<>>
    ELSE IF Len(chunks) = 1 THEN chunks[1]
    ELSE LET mid == Len(chunks) \div 2
         IN  Flatten(Take(chunks, mid)) \o Flatten(Drop(chunks, mid))

\* Keccak::new(), the updates, finalize() of alloy_primitives::Keccak256
HashChunks(tbl, chunks) == RefKeccak(tbl, Flatten(chunks))

\* receipt_trie_root_from_proof(proof, encoded_receipt), from the leaf up
RECURSIVE RootLoop(_, _, _)
RootLoop(tbl, proof, current_root) ==
    IF Len(proof) = 0 THEN [panic |-> FALSE, tbl |-> tbl, root |-> current_root]
    ELSE LET n == ChunksStep(proof, current_root)
         IN  IF n.panic THEN [panic |-> TRUE, tbl |-> tbl, root |-> current_root]
             ELSE LET h == HashChunks(tbl, n.chunks)
                  IN  RootLoop(h.tbl, n.proof, h.out)

receipt_trie_root_from_proof(tbl, proof, encoded_receipt) ==
    LET leaf == ChunksNodeWithPath(proof, LEAF_PATH_FLAG, encoded_receipt)
    IN  IF leaf.panic THEN [panic |-> TRUE, tbl |-> tbl, root |-> <<>>]
        ELSE LET h == HashChunks(tbl, leaf.chunks)
             IN  RootLoop(h.tbl, leaf.proof, h.out)

\* The guest's verifier takes the caller's sponge in place of a new hasher:
\* every slice goes through Keccak256::update and the node hash comes out of
\* finalize_and_reset.
RECURSIVE UpdateChunks(_, _)
UpdateChunks(k, chunks) ==
    IF Len(chunks) = 0 \/ k.offset >= BLOCK_SIZE THEN k
    ELSE UpdateChunks(update(k, Head(chunks), FALSE), Tail(chunks))

SpongeChunks(k, chunks) == finalize_and_reset(UpdateChunks(k, chunks))

RECURSIVE SpongeRootLoop(_, _, _)
SpongeRootLoop(k, proof, current_root) ==
    IF Len(proof) = 0 THEN [panic |-> FALSE, k |-> k, root |-> current_root]
    ELSE LET n == ChunksStep(proof, current_root)
         IN  IF n.panic THEN [panic |-> TRUE, k |-> k, root |-> current_root]
             ELSE LET h == SpongeChunks(k, n.chunks)
                  IN  SpongeRootLoop(h.k, n.proof, h.out)

sponge_receipt_trie_root_from_proof(k, proof, encoded_receipt) ==
    LET leaf == ChunksNodeWithPath(proof, LEAF_PATH_FLAG, encoded_receipt)
    IN  IF leaf.panic THEN [panic |-> TRUE, k |-> k, root |-> <<>>]
        ELSE LET h == SpongeChunks(k, leaf.chunks)
             IN  SpongeRootLoop(h.k, leaf.proof, h.out)

\* ------------------------------------------------------------ fee entries

FEE_ENTRY_SIZE == 36
ASSET_OFFSET == 0
AMOUNT_OFFSET == 20

\* FeeEntry::new
FeeEntry(addr, amount) == addr \o BeFixed(amount, FEE_ENTRY_SIZE - AMOUNT_OFFSET)

\* FeeEntry::asset
asset(entry) == SubSeq(entry, ASSET_OFFSET + 1, AMOUNT_OFFSET)

\* FeeEntry::amount
amount(entry) == BigEndian(SubSeq(entry, AMOUNT_OFFSET + 1, FEE_ENTRY_SIZE))

\* FeeSummaryInspector::try_from
FeeSummaryInspector(entry_bytes) ==
    IF Len(entry_bytes) % FEE_ENTRY_SIZE # 0
    THEN [ok |-> FALSE, length |-> Len(entry_bytes), bytes |-> <<>>]
    ELSE [ok |-> TRUE, length |-> Len(entry_bytes), bytes |-> entry_bytes]

\* FeeSummaryInspector::index giving the first entry whatever the index
FeeIndex_First(inspector, index) ==
    SubSeq(inspector.bytes, 1, FEE_ENTRY_SIZE)

\* FeeSummaryInspector::index, index from 0
FeeIndex(inspector, index) ==
    SubSeq(inspector.bytes, index * FEE_ENTRY_SIZE + 1, (index + 1) * FEE_ENTRY_SIZE)

\* ------------------------------------------------------------- the guest

\* an RLP string of at most 55 bytes that is not a single byte below 0x80
RlpString(bs) == encode_header(RLP_STR_OFFSET, Len(bs))[1] \o bs

RECURSIVE EncodeLogs(_)
EncodeLogs(logs) ==
    IF Len(logs) = 0 THEN <<>>
    ELSE LET l == Head(logs)
             body == RlpFixed(l.address) \o RlpString(l.data)
         IN  RlpListHeader(Len(body)) \o body \o EncodeLogs(Tail(logs))

\* ReceiptEnvelope::encode_2718 of a receipt [ty, logs]: the type byte of a
\* typed receipt, then the receipt as an RLP list.  Of the receipt's fields
\* only the logs (address and data) are kept.
encode_2718(receipt) ==
    LET body == EncodeLogs(receipt.logs)
    IN  (IF receipt.ty = 0 THEN <<>> ELSE <<B(receipt.ty)>>)
        \o RlpListHeader(Len(body)) \o body

\* RewardAggregator::new
\* (fee_slice is the last range of payload.fee_entries the aggregator took)
NewAggregator ==
    [sums |-> <<>>, fee_entry_offset |-> 0, block_index |-> 0, reward_blocks |-> 1,
     fee_slice |-> [from |-> 0, to |-> 0]]

\* a mutant of the slice's range: every block's entries are taken from the
\* start of fee_entries
FeeSliceRange_FromStart(fee_entry_offset, block_fee_entries) ==
    [from |-> 0, to |-> block_fee_entries * FEE_ENTRY_SIZE]

\* lines 88-89, the range of the block's slice of payload.fee_entries
FeeSliceRange(fee_entry_offset, block_fee_entries) ==
    [from |-> fee_entry_offset * FEE_ENTRY_SIZE,
     to |-> (fee_entry_offset + block_fee_entries) * FEE_ENTRY_SIZE]

\* a mutant of the aggregation loop: an entry of amount zero is added too
RECURSIVE AddEntries_InsertZero(_, _, _, _)
AddEntries_InsertZero(sums, fee_summaries, i, n) ==
    IF i >= n THEN sums
    ELSE AddEntries_InsertZero(
            [x \in DOMAIN sums \cup {asset(FeeIndex(fee_summaries, i))} |->
                (IF x \in DOMAIN sums THEN sums[x] ELSE 0)
                + (IF x = asset(FeeIndex(fee_summaries, i))
                   THEN amount(FeeIndex(fee_summaries, i)) ELSE 0)],
            fee_summaries, i + 1, n)

\* lines 103-109: the entries i..n-1 of the block added to the sums
RECURSIVE AddEntries(_, _, _, _)
AddEntries(sums, fee_summaries, i, n) ==
    IF i >= n THEN sums
    ELSE LET entry == FeeIndex(fee_summaries, i)
             a == asset(entry)
             next == IF amount(entry) > 0
                     THEN IF a \in DOMAIN sums
                          THEN [sums EXCEPT ![a] = @ + amount(entry)]
                          ELSE [x \in DOMAIN sums \cup {a} |->
                                    IF x = a THEN amount(entry) ELSE sums[x]]
                     ELSE sums
         IN  AddEntries(next, fee_summaries, i + 1, n)

\* a mutant of the aggregation loop: the first entry of a block is left out
AddEntries_SkipFirst(sums, fee_summaries, i, n) ==
    AddEntries(sums, fee_summaries, IF i = 0 THEN 1 ELSE i, n)

SumEntries(sums, fee_summaries, i, n) == AddEntries(sums, fee_summaries, i, n)

\* what validate_and_agg_next_block leaves behind: the aggregator, the
\* hash-out buffer, the sponge, and abort naming the check that failed
\* ("none" when it returns)
AggRet(a, h, kk, ab) == [agg |-> a, hash_out |-> h, k |-> kk, abort |-> ab]

\* a mutant of the receipts-root check: the roots are not compared
AggCheckRoot_NoCompare(agg3, header, fee_summaries, block_fee_entries, f, t) ==
    IF t.panic THEN AggRet(agg3, f.out, t.k, "proof")
    ELSE AggRet([agg3 EXCEPT !.sums = SumEntries(@, fee_summaries, 0, block_fee_entries)],
                f.out, t.k, "none")

\* validate_and_agg_next_block, lines 99-109, with t what
\* receipt_trie_root_from_proof returned
AggCheckRoot(agg3, header, fee_summaries, block_fee_entries, f, t) ==
    IF t.panic THEN AggRet(agg3, f.out, t.k, "proof")
    ELSE IF t.root # receipts_root(header) THEN AggRet(agg3, f.out, t.k, "receipts_root")
    ELSE AggRet([agg3 EXCEPT !.sums = SumEntries(@, fee_summaries, 0, block_fee_entries)],
                f.out, t.k, "none")

\* validate_and_agg_next_block, lines 94-99, with f the sponge and the
\* buffer after the fee entries are hashed
AggCheckHash(agg3, header, rb, log, fee_summaries, f) ==
    IF f.out # log.data THEN AggRet(agg3, f.out, f.k, "fee_hash")
    ELSE AggCheckRoot(agg3, header, fee_summaries, rb.fee_entries, f,
            sponge_receipt_trie_root_from_proof(f.k, rb.proof, encode_2718(rb.receipt)))

\* validate_and_agg_next_block, lines 87-93, over the block's slice of
\* fee_entries
AggHashFees(agg3, header, rb, log, k, hash_out, fee_summaries) ==
    IF ~fee_summaries.ok THEN AggRet(agg3, hash_out, k, "fee_align")
    ELSE AggCheckHash(agg3, header, rb, log, fee_summaries,
            finalize_and_reset(update(k, fee_summaries.bytes, TRUE)))

\* a mutant of the emitter check: any log passes
IsAngstromLog_Any(p, log) == TRUE

\* line 81, the assertion's condition
IsAngstromLog(p, log) == log.address = p.angstrom

\* RewardAggregator::validate_and_agg_next_block on payload p
validate_and_agg_next_block(p, agg, header, hash_out, k) ==
    LET block_index == agg.block_index
        agg1 == [agg EXCEPT !.block_index = @ + 1]
    IN
    IF \/ agg.reward_blocks > Len(p.reward_blocks)
       \/ p.reward_blocks[agg.reward_blocks].block_index # block_index
    THEN AggRet(agg1, hash_out, k, "none")
    ELSE
    LET rb == p.reward_blocks[agg.reward_blocks]
        agg2 == [agg EXCEPT !.block_index = @ + 1, !.reward_blocks = @ + 1]
        fee_entry_offset == agg.fee_entry_offset
        block_fee_entries == p.reward_blocks[agg.reward_blocks].fee_entries
        agg3 == [agg EXCEPT !.block_index = @ + 1, !.reward_blocks = @ + 1,
                            !.fee_entry_offset = @ + block_fee_entries,
                            !.fee_slice = FeeSliceRange(fee_entry_offset, block_fee_entries)]
    IN
    IF rb.log_index >= Len(rb.receipt.logs) THEN AggRet(agg2, hash_out, k, "log_index")
    ELSE IF ~IsAngstromLog(p, rb.receipt.logs[rb.log_index + 1])
    THEN AggRet(agg2, hash_out, k, "address")
    ELSE IF FeeSliceRange(fee_entry_offset, block_fee_entries).to > Len(p.fee_entries)
    THEN AggRet(agg3, hash_out, k, "fee_slice")
    ELSE AggHashFees(agg3, header, rb, rb.receipt.logs[rb.log_index + 1], k, hash_out,
            FeeSummaryInspector(SubSeq(p.fee_entries,
                FeeSliceRange(fee_entry_offset, block_fee_entries).from + 1,
                FeeSliceRange(fee_entry_offset, block_fee_entries).to)))

NoBytes32 == [i \in 1..HASH_BYTES |-> B(0)]

\* validate_payload, the locals at its start
StartGuest(p) ==
    [headers |-> p.headers, keccak |-> NewKeccak(p.tbl),
     chain_parent |-> NoBytes32, last_hash |-> NoBytes32,
     agg |-> NewAggregator, status |-> "start", lenses |-> <<>>]

\* a mutant of the link check: no link is ever found broken
LinkBroken_Never(last_hash, header) == FALSE

\* line 140, the assertion's condition negated
LinkBroken(last_hash, header) == last_hash # parent_hash(header)

\* validate_payload, lines 133-135 and 146-147, with f the sponge and the
\* buffer after the header is hashed
HeaderHashed(g1, v, f) ==
    [g1 EXCEPT !.agg = v.agg, !.keccak = f.k, !.last_hash = f.out, !.status = "run"]

\* validate_payload, lines 131-134 and 144-147, with v what
\* validate_and_agg_next_block left behind
HeaderAggregated(p, g, g1, first, header, v) ==
    IF v.abort # "none"
    THEN [g1 EXCEPT !.agg = v.agg, !.keccak = v.k, !.status = v.abort,
                    !.last_hash = IF first THEN @ ELSE v.hash_out]
    ELSE HeaderHashed(g1, v,
            finalize_and_reset(update(v.k, header.encoded,
                (Len(p.headers) - Len(g.headers)) % WORD_BYTES = 0)))

\* validate_payload, lines 127-131 and 140-144, with r what read_from
\* returned and g1 the locals once the lens is taken
HeaderLinked(p, g, g1, first, header) ==
    IF ~first /\ LinkBroken(g.last_hash, header)
    THEN [g1 EXCEPT !.status = "chain_break"]
    ELSE HeaderAggregated(p, g, g1, first, header,
            validate_and_agg_next_block(p, g.agg, header,
                IF first THEN NoBytes32 ELSE g.last_hash, g.keccak))

\* validate_payload, lines 126 and 139: the unwrap of read_from's result
HeaderUnwrap(p, g, first, r) ==
    IF r.tag # "ok"
    THEN [g EXCEPT !.headers = r.reader,
                   !.status = IF r.tag = "err" THEN "lens_err" ELSE "lens_panic"]
    ELSE HeaderLinked(p, g,
            [g EXCEPT !.headers = r.reader, !.lenses = Append(@, r.lens),
                      !.chain_parent = IF first THEN parent_hash(r.lens) ELSE @],
            first, r.lens)

\* validate_payload: one header read and processed, the first (lines
\* 125-136) or one turn of the loop (lines 139-147).  status names the
\* failed unwrap or assertion when the guest aborts there.
HeaderStep(p, g, first) == HeaderUnwrap(p, g, first, read_from(g.headers))

\* U256::to_be_bytes::<32>
U256Bytes(n) == BeFixed(n, 32)

\* main, lines 27-36: the output for the sums iterated in the given order
RECURSIVE SumRecords(_, _)
SumRecords(sums, order) ==
    IF Len(order) = 0 THEN <<>>
    ELSE Head(order) \o U256Bytes(sums[Head(order)]) \o SumRecords(sums, Tail(order))

Output(p, chainParent, chainLast, sums, order) ==
    p.angstrom \o chainParent \o chainLast \o SumRecords(sums, order)

\* the orders in which a HashMap with these keys may be iterated
IterOrders(keys) ==
    {o \in [1..Cardinality(keys) -> keys] : \A i, j \in DOMAIN o : i # j => o[i] # o[j]}

\* ----------------------------------------------------------------- state

VARIABLES
    keccak,     \* the Keccak256 in use, with the permutation table (tbl)
    hash,       \* the [u8; 32] the last finalize_and_reset wrote
    fed,        \* the inputs passed to update since creation / the last reset
    log,        \* per finalize_and_reset so far: the inputs fed and the output
    nupd,       \* update calls so far
    reader,     \* the Reader over the encoded headers: the bytes not yet read
    lenses,     \* the lenses read_from returned so far
    lstatus,    \* "ok", or how the last read_from ended: "err" or "panic"
    lin,        \* what the reader was built from: the headers and the defect
    payload,    \* the Payload the guest reads
    pin,        \* how the payload was made: headers, reward blocks, defect
    guest,      \* validate_payload's locals and where it stands (status)
    out,        \* the bytes given to commit_slice, <<>> before that
    fee,        \* a byte slice, and the FeeSummaryInspector made of it
    trie,       \* a list of receipts, and the proof and roots made of it
    built       \* a block's receipts and fee-summary map, and the log found

keccakVars == <<keccak, hash, fed, log, nupd>>
lensVars == <<reader, lenses, lstatus, lin>>
guestVars == <<payload, pin, guest, out>>

toolVars == <<fee, trie, built>>

vars == <<keccakVars, lensVars, guestVars, toolVars>>

\* the sponge is not in use
KeccakIdle ==
    /\ keccak = NewKeccak(<<>>)
    /\ hash = <<>>
    /\ fed = <<>>
    /\ log = <<>>
    /\ nupd = 0

\* no reader is in use
LensIdle ==
    /\ reader = <<>>
    /\ lenses = <<>>
    /\ lstatus = "ok"
    /\ lin = <<>>

\* no guest is running
GuestIdle ==
    /\ payload = <<>>
    /\ pin = <<>>
    /\ guest = <<>>
    /\ out = <<>>

\* no inspector, no trie and no payload builder is in use
FeeIdle == fee = <<>>
TrieIdle == trie = <<>>
BuiltIdle == built = <<>>
ToolsIdle == FeeIdle /\ TrieIdle /\ BuiltIdle

\* ------------------------------------------------------- bounds, inputs

\* update calls per run
MaxUpdates == 2
\* messages (finalize_and_reset calls) per run
MaxMsgs == 2

\* input lengths: empty, one byte, and the first two rate boundaries -1, +0, +1
InputLens ==
    {0, 1} \cup {BLOCK_SIZE * b + d : b \in {1, 2}, d \in {-1, 0, 1}}

\* n bytes that differ by position and by seed
Msg(seed, n) == [i \in 1..n |-> B((seed + 3 * i) % 256)]

\* the input of the next update call: its seed and length
NextInput(n) == [seed |-> 97 * Len(log) + 31 * Len(fed) + 5, n |-> n]

Bytes(in) == Msg(in.seed, in.n)

RECURSIVE ConcatBytes(_)
ConcatBytes(ins) ==
    IF Len(ins) = 0 THEN <<>> ELSE Bytes(Head(ins)) \o ConcatBytes(Tail(ins))

NoHash == [i \in 1..HASH_BYTES |-> {}]

\* ------------------------------------------------- the sponge in use

KeccakInit ==
    /\ keccak = NewKeccak(<<>>)
    /\ hash = NoHash
    /\ fed = <<>>
    /\ log = <<>>
    /\ nupd = 0
    /\ LensIdle
    /\ GuestIdle
    /\ ToolsIdle

KUpdate ==
    \E n \in InputLens, aligned \in BOOLEAN :
        /\ Len(log) < MaxMsgs
        /\ nupd < MaxUpdates
        /\ keccak' = update(keccak, Bytes(NextInput(n)), aligned)
        /\ fed' = Append(fed, NextInput(n))
        /\ nupd' = nupd + 1
        /\ UNCHANGED <<hash, log, lensVars, guestVars, toolVars>>

KFinalize ==
    /\ Len(log) < MaxMsgs
    /\ LET r == finalize_and_reset(keccak)
       IN  /\ keccak' = r.k
           /\ hash' = r.out
           /\ log' = Append(log, [fed |-> fed, out |-> r.out])
    /\ fed' = <<>>
    /\ UNCHANGED <<nupd, lensVars, guestVars, toolVars>>

KComplete ==
    \E n \in InputLens, aligned \in BOOLEAN :
        /\ Len(log) < MaxMsgs
        /\ nupd < MaxUpdates
        /\ LET r == complete(keccak, Bytes(NextInput(n)), aligned)
           IN  /\ keccak' = r.k
               /\ hash' = r.out
               /\ log' = Append(log, [fed |-> Append(fed, NextInput(n)),
                                      out |-> r.out])
        /\ fed' = <<>>
        /\ nupd' = nupd + 1
        /\ UNCHANGED <<lensVars, guestVars, toolVars>>

KeccakNext == KUpdate \/ KFinalize \/ KComplete

SpecKeccak == KeccakInit /\ [][KeccakNext]_vars

\* ------------------------------------------------- the lens over a reader

\* headers per reader
MaxLensHeaders == 2

\* lengths of the fields after receipts_root: payloads of 186 and 189 bytes
\* (one length byte) and of 256 bytes (two length bytes)
TailLens == {0, 3, 70}

\* the header at position i (from 1) of a reader, with the given tail length
HeaderAt(i, tailLen) ==
    [parent_hash       |-> Msg(40 * i, 32),
     ommers_hash       |-> Msg(40 * i + 1, 32),
     beneficiary       |-> Msg(40 * i + 2, 20),
     state_root        |-> Msg(40 * i + 7, 32),
     transactions_root |-> Msg(40 * i + 11, 32),
     receipts_root     |-> Msg(40 * i + 13, 32),
     tail              |-> Msg(40 * i + 17, tailLen)]

\* offset, in a header's payload, of the head byte of fixed field f
RECURSIVE FieldOffset(_)
FieldOffset(f) == IF f = 1 THEN 0 ELSE FieldOffset(f - 1) + FixedFields[f - 1] + 1

\* the encoding of one header under a defect:
\*   "head"  - the first byte is v, not a long-list head
\*   "field" - the head byte of fixed field f is off by one
\*   "short" - the list declares a payload of v bytes, cut to that length
\*   "wide"  - the length takes five bytes, the first of them v
DefectiveHeader(enc, d) ==
    LET off == Val(enc[1]) - RLP_LIST_OFFSET - RLP_MAX_PACKED_LEN + 1 IN
    CASE d.kind = "head"  -> [enc EXCEPT ![1] = B(d.v)]
      [] d.kind = "wide"  ->
            <<B(RLP_LIST_OFFSET + RLP_MAX_PACKED_LEN + 5), B(d.v), B(0), B(0)>>
            \o BeFixed(Len(enc) - off, 2) \o Drop(enc, off)
      [] d.kind = "field" ->
            [enc EXCEPT ![off + FieldOffset(d.f) + 1] = B(RLP_STR_OFFSET + FixedFields[d.f] + 1)]
      [] d.kind = "short" -> RlpListHeader(d.v) \o SubSeq(enc, off + 1, off + d.v)
      [] OTHER -> enc

RECURSIVE LensBytes(_, _, _)
LensBytes(tails, d, i) ==
    IF i > Len(tails) THEN <<>>
    ELSE LET enc == EncodeHeader(HeaderAt(i, tails[i]))
         IN  (IF d.at = i THEN DefectiveHeader(enc, d) ELSE enc)
             \o LensBytes(tails, d, i + 1)

\* the bytes a reader is built from: the headers one after another, one of
\* them possibly defective, or the whole cut short by d.v bytes ("cut"), or
\* no bytes at all ("empty")
LensInput(in) ==
    LET all == LensBytes(in.tails, in.defect, 1)
    IN  IF in.defect.kind = "cut" THEN Take(all, Len(all) - in.defect.v) ELSE all

NoDefect == [kind |-> "none", at |-> 0, f |-> 0, v |-> 0]

Defects(n) ==
    {NoDefect}
    \cup {[kind |-> "cut", at |-> 0, f |-> 0, v |-> v] : v \in {1, 40}}
    \cup {[kind |-> "head", at |-> j, f |-> 0, v |-> v] : j \in 1..n, v \in {0, 192, 247}}
    \cup {[kind |-> "field", at |-> j, f |-> f, v |-> 0] : j \in 1..n, f \in 1..6}
    \cup {[kind |-> "short", at |-> j, f |-> 0, v |-> v] :
            j \in 1..n, v \in {0, 32, 33, 100, 185}}
    \cup {[kind |-> "wide", at |-> j, f |-> 0, v |-> v] : j \in 1..n, v \in {0, 1}}

LensInputs ==
    {[tails |-> <<>>, defect |-> [NoDefect EXCEPT !.kind = "empty"]]}
    \cup UNION {{[tails |-> t, defect |-> d] : t \in [1..n -> TailLens], d \in Defects(n)} :
                    n \in 1..MaxLensHeaders}

LensInit ==
    /\ KeccakIdle
    /\ GuestIdle
    /\ ToolsIdle
    /\ lin \in LensInputs
    /\ reader = LensInput(lin)
    /\ lenses = <<>>
    /\ lstatus = "ok"

\* one EncodedHeaderLens::read_from on the reader: the first one, and then
\* one more while the reader is not empty
LRead ==
    /\ lstatus = "ok"
    /\ lenses = <<>> \/ reader # <<>>
    /\ LET r == read_from(reader)
       IN  /\ reader' = r.reader
           /\ lstatus' = r.tag
           /\ lenses' = IF r.tag = "ok" THEN Append(lenses, r.lens) ELSE lenses
    /\ UNCHANGED <<lin, keccakVars, guestVars, toolVars>>

LensNext == LRead

SpecLens == LensInit /\ [][LensNext]_vars

\* ------------------------------------------------------- the payloads

\* headers per payload
MaxHeaders == 2

Angstrom == Msg(150, 20)
OtherEmitter == Msg(9, 20)
Assets == <<Msg(201, 20), Msg(77, 20)>>

\* the fee entries a reward block of each kind commits to: asset (index in
\* Assets) and amount
EntryLists ==
    << << [asset |-> 1, amount |-> 5], [asset |-> 2, amount |-> 0],
          [asset |-> 1, amount |-> 1000000] >>,
       << [asset |-> 2, amount |-> 3] >>,
       << >> >>

RewardKinds == 1..Len(EntryLists)

RECURSIVE EntryBytes(_)
EntryBytes(es) ==
    IF Len(es) = 0 THEN <<>>
    ELSE FeeEntry(Assets[Head(es).asset], Head(es).amount) \o EntryBytes(Tail(es))

\* the receipt of a reward block of each kind, its reward log emitted by
\* emitter and carrying data
ReceiptWith(kind, emitter, data) ==
    CASE kind = 1 -> [ty |-> 0, logs |-> << [address |-> emitter, data |-> data] >>]
      [] kind = 2 -> [ty |-> 2, logs |-> << [address |-> OtherEmitter, data |-> Msg(60, 32)],
                                           [address |-> emitter, data |-> data] >>]
      [] OTHER    -> [ty |-> 1, logs |-> << [address |-> emitter, data |-> data] >>]

ReceiptOf(kind, data) == ReceiptWith(kind, Angstrom, data)

\* the receipt of a reward block under the defect bd of the block, for the
\* hash h of its fee entries:
\*   "address"    the reward log is another contract's,
\*   "long_data"  the log's data goes on after the 32 bytes of the hash,
\*   "bad_hash"   the log's data is not the hash of the entries.
DefectReceipt(bd, kind, h) ==
    CASE bd = "address"   -> ReceiptWith(kind, OtherEmitter, h)
      [] bd = "long_data" -> ReceiptOf(kind, h \o <<B(0)>>)
      [] bd = "bad_hash"  -> ReceiptOf(kind, [h EXCEPT ![1] = Xor(@, B(1))])
      [] OTHER            -> ReceiptOf(kind, h)

LogIndexOf(kind) == IF kind = 2 THEN 1 ELSE 0

\* the compact proof of each kind: a leaf alone; a leaf with an odd path
\* under a branch (index 8, siblings at 1 and 9); a leaf under an extension
\* with a one-nibble path
ProofOf(kind) ==
    CASE kind = 1 -> <<B(2), B(128)>>
      [] kind = 2 -> <<B(1), B(1), B(BRANCH_NODE_FLAG + 8), B(3), B(2)>>
                     \o Msg(90, 32) \o Msg(120, 32)
      [] OTHER    -> <<B(2), B(128), B(EXTENSION_NODE_FLAG), B(1), B(5)>>

\* length of the fields after receipts_root of the header at index i: the
\* first header takes two length bytes (payload 256), the second is 256
\* bytes in all, later ones have no tail
GuestTail(i) == CASE i = 0 -> 70 [] i = 1 -> 68 [] OTHER -> 0

GuestHeader(i, parent, root) ==
    [HeaderAt(i + 1, GuestTail(i)) EXCEPT !.parent_hash = parent, !.receipts_root = root]

\* the reward block of header i, its entries and both receipts roots
RewardBuilt(kind, i, entries, receipt, sr, tr) ==
    [k |-> [sr.k EXCEPT !.tbl = tr.tbl], root |-> sr.root, true_root |-> tr.root,
     entries |-> entries,
     blocks |-> << [block_index |-> i, proof |-> ProofOf(kind), receipt |-> receipt,
                    log_index |-> LogIndexOf(kind), fee_entries |-> Len(EntryLists[kind])] >>]

\* the receipts root of the trie the proof describes, as the sponge (sr)
\* and as a new hasher per node (tr) compute it
RewardRooted(kind, i, entries, receipt, sr) ==
    RewardBuilt(kind, i, entries, receipt, sr,
        receipt_trie_root_from_proof(sr.k.tbl, ProofOf(kind), encode_2718(receipt)))

\* the receipt of the block, and the sponge k1 after the entries are hashed
RewardReceipt(kind, i, k1, entries, receipt) ==
    RewardRooted(kind, i, entries, receipt,
        sponge_receipt_trie_root_from_proof(k1, ProofOf(kind), encode_2718(receipt)))

\* the receipt with the reward log, whose data is the hash rh of the entries
RewardLogged(kind, i, k, entries, rh, bd) ==
    RewardReceipt(kind, i,
        finalize_and_reset(update([k EXCEPT !.tbl = rh.tbl], entries, TRUE)).k,
        entries, DefectReceipt(bd, kind, rh.out))

RewardEntries(kind, i, k, entries, bd) ==
    RewardLogged(kind, i, k, entries, RefKeccak(k.tbl, entries), bd)

\* the reward block of kind kind (0: none) for header i under the defect bd,
\* the receipts root that goes with it, and the sponge k after the guest has
\* verified it
RewardFor(kind, i, k, bd) ==
    IF kind = 0
    THEN [k |-> k, root |-> Msg(40 * i + 13, 32), true_root |-> Msg(40 * i + 13, 32),
          entries |-> <<>>, blocks |-> <<>>]
    ELSE RewardEntries(kind, i, k, EntryBytes(EntryLists[kind]), bd)

\* what is built so far with the encoded header, whose hash is hh, added
HeaderAdded(acc, rw, header, hh) ==
    [k |-> finalize_and_reset(update([rw.k EXCEPT !.tbl = hh.tbl], header, TRUE)).k,
     prev |-> hh.out,
     headers |-> acc.headers \o header,
     hdrs |-> Append(acc.hdrs, header),
     reward_blocks |-> acc.reward_blocks \o rw.blocks,
     fee_entries |-> acc.fee_entries \o rw.entries]

HeaderEncoded(acc, rw, header) == HeaderAdded(acc, rw, header, RefKeccak(rw.k.tbl, header))

\* header i and its reward block rw added to what is built so far
BuildHeader(d, i, acc, rw) ==
    HeaderEncoded(acc, rw,
        EncodeHeader(GuestHeader(i,
            IF d.defect.kind = "chain_break" /\ d.defect.at = i
            THEN [acc.prev EXCEPT ![1] = Xor(@, B(1))]
            ELSE acc.prev,
            IF d.defect.kind = "true_root" THEN rw.true_root
            ELSE IF d.defect.kind = "bad_root" /\ d.defect.at = i
                 THEN [rw.root EXCEPT ![32] = Xor(@, B(128))]
                 ELSE rw.root)))

\* The payload for descriptor d, built header by header from index i.  acc
\* carries what is built so far, the hash of the previous header, and the
\* sponge as validate_payload will have it at this header.  d.rw[i + 1] is
\* the kind of header i's reward block, 0 for none.  Under the defect
\*   "chain_break" header d.defect.at carries another parent hash,
\*   "true_root"   the headers carry the receipts root that
\*                 receipt_trie_root_from_proof computes with a new hasher
\*                 per node, otherwise the root that comes out of the sponge,
\*   "bad_root"    header d.defect.at carries another receipts root,
\*   "stray"       a last reward block names a block index past the headers;
\* the defects of a reward block (DefectReceipt) are those of header
\* d.defect.at.
RECURSIVE BuildFrom(_, _, _)
BuildFrom(d, i, acc) ==
    IF i >= d.n THEN acc
    ELSE BuildFrom(d, i + 1,
            BuildHeader(d, i, acc,
                RewardFor(d.rw[i + 1], i, acc.k,
                          IF d.defect.at = i THEN d.defect.kind ELSE "none")))

\* the parent hash the first header carries
FirstParent == Msg(33, 32)

\* a reward block for a block index no header has, with its entries
StrayHashed(n, entries, rh) ==
    [tbl |-> rh.tbl, entries |-> entries,
     blocks |-> << [block_index |-> n, proof |-> ProofOf(1),
                    receipt |-> ReceiptOf(1, rh.out),
                    log_index |-> 0, fee_entries |-> Len(EntryLists[2])] >>]

StrayEntries(n, tbl, entries) == StrayHashed(n, entries, RefKeccak(tbl, entries))

StrayBlock(n, tbl) == StrayEntries(n, tbl, EntryBytes(EntryLists[2]))

\* byte pos (from 1) of header j (from 0) changed by XOR with mask
MutateHeaders(hdrs, j, pos, mask) ==
    Flatten([i \in 1..Len(hdrs) |->
        IF i = j + 1 THEN [hdrs[i] EXCEPT ![pos] = Xor(@, B(mask))] ELSE hdrs[i]])

\* the Payload for descriptor d, with the permutation table its hashes
\* refer to (tbl) and the headers as encoded one by one (hdrs)
BuiltPayload(d, b, stray) ==
    [angstrom |-> Angstrom,
     headers |-> IF d.defect.kind = "mutate"
                 THEN MutateHeaders(b.hdrs, d.defect.at, d.defect.pos, d.defect.mask)
                 ELSE b.headers,
     reward_blocks |-> IF d.defect.kind = "stray"
                       THEN b.reward_blocks \o stray.blocks
                       ELSE b.reward_blocks,
     fee_entries |-> IF d.defect.kind = "stray"
                     THEN b.fee_entries \o stray.entries
                     ELSE b.fee_entries,
     tbl |-> IF d.defect.kind = "stray" THEN stray.tbl ELSE b.k.tbl,
     hdrs |-> b.hdrs]

BuildStray(d, b) == BuiltPayload(d, b, StrayBlock(d.n, b.k.tbl))

BuildPayload(d) ==
    BuildStray(d, BuildFrom(d, 0,
        [k |-> NewKeccak(<<>>), prev |-> FirstParent, headers |-> <<>>,
         hdrs |-> <<>>, reward_blocks |-> <<>>, fee_entries |-> <<>>]))

Defect(kind, at, pos, mask) == [kind |-> kind, at |-> at, pos |-> pos, mask |-> mask]

\* encoded length of the header at index i
GuestHeaderLen(i) ==
    LET pl == 186 + GuestTail(i) IN length_of_length(pl) + pl

\* the defects of one reward block or of the header it belongs to
BlockDefects == {"address", "long_data", "bad_hash", "bad_root"}

\* payloads with a valid chain, a chain broken at one link, receipts roots
\* of the reference verifier, a stray reward block, or a defect in the
\* reward block of one header
PayloadDescs ==
    UNION {{[n |-> n, rw |-> rw, defect |-> df] :
                rw \in [1..n -> {0} \cup RewardKinds],
                df \in {Defect("none", 0, 0, 0), Defect("stray", 0, 0, 0),
                        Defect("true_root", 0, 0, 0)}
                       \cup {Defect("chain_break", i, 0, 0) : i \in 1..(n - 1)}} :
           n \in 1..MaxHeaders}
    \cup
    UNION {{[n |-> n, rw |-> rw, defect |-> Defect(kd, i, 0, 0)] :
                rw \in {x \in [1..n -> {0} \cup RewardKinds] : x[i + 1] # 0},
                kd \in BlockDefects} :
           <<n, i>> \in {t \in (1..MaxHeaders) \X (0..(MaxHeaders - 1)) : t[2] < t[1]}}

\* the masks tried on byte pos of a header: one bit everywhere, two bits
\* also on the list prefix
MutMasks(i, pos) ==
    IF pos <= length_of_length(186 + GuestTail(i)) THEN {1, 3} ELSE {1}

\* payloads with a valid chain, without reward blocks or with one for the
\* first header, in which one byte of one header is changed
MutatedDescs ==
    UNION {{[n |-> n, rw |-> [i \in 1..n |-> IF i = 1 THEN r ELSE 0],
             defect |-> Defect("mutate", j, pos, mask)] :
                r \in {0, 1}, mask \in MutMasks(j, pos)} :
           <<n, j, pos>> \in {t \in (1..MaxHeaders) \X (0..(MaxHeaders - 1)) \X (1..259) :
                                t[2] < t[1] /\ t[3] <= GuestHeaderLen(t[2])}}

\* ------------------------------------------------------- the guest runs

GuestInitFrom(descs) ==
    /\ KeccakIdle
    /\ LensIdle
    /\ ToolsIdle
    /\ pin \in descs
    /\ payload = BuildPayload(pin)
    /\ guest = StartGuest(payload)
    /\ out = <<>>

GuestInit == GuestInitFrom(PayloadDescs)

MutatedInit == GuestInitFrom(MutatedDescs)

\* a mutant of Returned: main goes on whenever no header is left to read
Returned_AnyEnd(g) == g.status # "committed" /\ g.status # "start" /\ g.headers = <<>>

\* validate_payload has returned (line 150): no assertion or unwrap has
\* failed and the loop has ended
Returned(g) == g.status = "run" /\ g.headers = <<>>

\* validate_payload, lines 118-136: the first header
GFirst ==
    /\ guest # <<>> /\ guest.status = "start"
    /\ guest' = HeaderStep(payload, guest, TRUE)
    /\ UNCHANGED <<payload, pin, out, keccakVars, lensVars, toolVars>>

\* validate_payload, lines 138-148: one turn of the loop
GNext ==
    /\ guest # <<>> /\ guest.status = "run"
    /\ guest.headers # <<>>
    /\ guest' = HeaderStep(payload, guest, FALSE)
    /\ UNCHANGED <<payload, pin, out, keccakVars, lensVars, toolVars>>

\* validate_payload returns and main commits the output, the sums in the
\* order the HashMap yields them
GCommit ==
    /\ guest # <<>> /\ Returned(guest)
    /\ \E order \in IterOrders(DOMAIN guest.agg.sums) :
           out' = Output(payload, guest.chain_parent, guest.last_hash,
                         guest.agg.sums, order)
    /\ guest' = [guest EXCEPT !.status = "committed"]
    /\ UNCHANGED <<payload, pin, keccakVars, lensVars, toolVars>>

GuestNext == GFirst \/ GNext \/ GCommit

SpecGuest == GuestInit /\ [][GuestNext]_vars

SpecMutated == MutatedInit /\ [][GuestNext]_vars

\* ------------------------------------------------------- Keccak claims

\* the reference digest of the inputs of the m-th finalize_and_reset
RefOf(m) == RefKeccak(keccak.tbl, ConcatBytes(log[m].fed)).out

\* C1: a fresh Keccak256 on which update(x) is called once and then
\* finalize_and_reset(out) writes out = Keccak-256(x), for x empty, one byte
\* and every length around the rate boundaries.
C1_SingleUpdateIsKeccak ==
    (Len(log) >= 1 /\ Len(log[1].fed) = 1) => log[1].out = RefOf(1)

C1_Witness ==
    /\ Len(log) = 1
    /\ Len(log[1].fed) = 1
    /\ log[1].fed[1].n = 2 * BLOCK_SIZE + 1
    /\ hash = RefOf(1)

\* C2: update is streaming: update(a); update(b); finalize_and_reset(out)
\* writes the digest of a || b, so every finalize_and_reset writes the
\* Keccak-256 of the concatenation of the inputs fed since the last reset.
C2_UpdateIsStreaming ==
    \A m \in 1..Len(log) : log[m].out = RefOf(m)

\* C3: after a finalize_and_reset the sponge is as good as fresh: a later
\* update(y); finalize_and_reset() writes Keccak-256(y), and a
\* finalize_and_reset right after another writes the empty string's digest,
\* whatever the earlier message left in the rate bytes.
C3_ResetIsFresh ==
    \A m \in 2..Len(log) : Len(log[m].fed) <= 1 => log[m].out = RefOf(m)

C3_Witness ==
    /\ Len(log) = 2
    /\ Len(log[1].fed) = 1 /\ log[1].fed[1].n = 2 * BLOCK_SIZE + 1
    /\ Len(log[2].fed) = 1 /\ log[2].fed[1].n = 1
    /\ log[2].out = RefOf(2)
    /\ log[2].out # log[1].out

\* --------------------------------------------------------- lens claims

\* the i-th header the reader was built from, as encoded
InputHeader(i) == EncodeHeader(HeaderAt(i, lin.tails[i]))

RECURSIVE ConcatLenses(_)
ConcatLenses(ls) ==
    IF Len(ls) = 0 THEN <<>> ELSE Head(ls).encoded \o ConcatLenses(Tail(ls))

\* enc is 1 + n + length bytes long, for n = head byte - 0xf7 and length the
\* big-endian value of the n bytes after the head byte
DeclaredLenIs(enc) ==
    LET n == Val(enc[1]) - 247
    IN  SubSeq(enc, 2, 1 + n) = BeFixed(Len(enc) - 1 - n, n)

\* C4: over a valid encoded header H the lens covers all of H, its hash is
\* the Keccak-256 of H, parent_hash() is H's first field and receipts_root()
\* is H's sixth field.
C4_LensOverValidHeader ==
    lin # <<>> /\ lin.defect.kind = "none" =>
        \A i \in 1..Len(lenses) :
            LET h == HeaderAt(i, lin.tails[i]) IN
            /\ Len(lenses[i].encoded) = Len(InputHeader(i))
            /\ LensHash(<<>>, lenses[i]).out = RefKeccak(<<>>, InputHeader(i)).out
            /\ parent_hash(lenses[i]) = h.parent_hash
            /\ receipts_root(lenses[i]) = h.receipts_root

C4_Witness ==
    /\ lin # <<>> /\ lin.defect.kind = "none"
    /\ Len(lenses) = 2
    /\ lin.tails = <<70, 3>>
    /\ lenses[1].payload_offset = 3 /\ lenses[2].payload_offset = 2
    /\ receipts_root(lenses[2]) = HeaderAt(2, 3).receipts_root
    /\ receipts_root(lenses[2]) # receipts_root(lenses[1])

\* C5: a successful read_from takes exactly 1 + n + length bytes off the
\* front of the reader and leaves the rest as it was, so over valid headers
\* h_0 || ... || h_k every read succeeds, the lenses are h_0, ..., h_k in
\* order, and the reader is empty after the last.
C5_ReadAdvancesExactly ==
    lin # <<>> =>
        /\ lstatus = "ok" => ConcatLenses(lenses) \o reader = LensInput(lin)
        /\ \A i \in 1..Len(lenses) : DeclaredLenIs(lenses[i].encoded)
        /\ lin.defect.kind = "none" =>
                /\ lstatus = "ok"
                /\ Len(lenses) <= Len(lin.tails)
                /\ \A i \in 1..Len(lenses) : lenses[i].encoded = InputHeader(i)
                /\ Len(lenses) = Len(lin.tails) => reader = <<>>


\* C6: read_from returns an error value, neither a lens nor an abort, when
\* the head byte is not a long-list head, when one of the six fixed fields
\* has another head byte, and when the declared payload is shorter than the
\* 186 bytes of the six fields.
C6_BadHeaderIsErr ==
    lin # <<>> /\ lin.defect.kind \in {"head", "field", "short"}
        => /\ lstatus # "panic"
           /\ Len(lenses) < lin.defect.at

\* -------------------------------------------------------- guest claims

\* Keccak-256 of the i-th header (from 1) as the payload was built
HeaderHash(i) == RefKeccak(guest.keccak.tbl, payload.hdrs[i]).out

Aborted == guest.status \notin {"start", "run", "committed"}

\* C7: over headers that form a valid chain, with reward blocks that
\* verify, validate_payload never aborts; chain_parent is the parent hash of
\* the first header, and after each header last_hash is the Keccak-256 of
\* that header, so the committed chain_last is that of the last header, with
\* or without reward blocks hashed in between on the same sponge and buffer.
C7_ChainEndpoints ==
    (pin # <<>> /\ pin.defect.kind = "none") =>
        /\ ~Aborted
        /\ guest.status # "start" =>
              /\ guest.chain_parent = FirstParent
              /\ guest.last_hash = HeaderHash(Len(guest.lenses))
        /\ guest.status = "committed" =>
              /\ Len(guest.lenses) = pin.n
              /\ SubSeq(out, 21, 52) = FirstParent
              /\ SubSeq(out, 53, 84) = HeaderHash(pin.n)

C7_Witness ==
    /\ pin # <<>> /\ pin.defect.kind = "none" /\ pin.rw = <<1, 2>>
    /\ guest.status = "committed"
    /\ guest.agg.reward_blocks = 3
    /\ guest.chain_parent = FirstParent
    /\ guest.last_hash = HeaderHash(2)
    /\ guest.last_hash # payload.reward_blocks[2].receipt.logs[2].data

\* the byte changed is one of the list prefix of its header
InPrefix(d) == d.defect.pos <= length_of_length(186 + GuestTail(d.defect.at))

\* offset in its header's payload (from 0) of the byte changed
PayloadPos(d) == d.defect.pos - length_of_length(186 + GuestTail(d.defect.at)) - 1

InFieldHead(d) == \E f \in 1..6 : PayloadPos(d) = FieldOffset(f)
InParentHash(d) == PayloadPos(d) \in 1..32
InReceiptsRoot(d) == PayloadPos(d) \in (FieldOffset(6) + 1)..(FieldOffset(6) + 32)

\* C8 as stated: whichever byte of whichever header is changed, the guest
\* fails with a lens construction error or the chain-break assertion, and
\* commits nothing.
C8_AnyMutationRejected ==
    (pin # <<>> /\ pin.defect.kind = "mutate") =>
        /\ guest.status \in {"start", "run", "lens_err", "lens_panic", "chain_break"}
        /\ ~(guest.status = "run" /\ guest.headers = <<>>)

\* the changes of one byte that the guest catches: outside the list prefix,
\* any byte of a header that is not the last; in the last header a field
\* head byte, the parent hash unless it is also the first header, and the
\* receipts root if the header has a reward block
Caught(d) ==
    /\ ~InPrefix(d)
    /\ \/ d.defect.at < d.n - 1
       \/ InFieldHead(d)
       \/ InParentHash(d) /\ d.defect.at > 0
       \/ InReceiptsRoot(d) /\ d.rw[d.defect.at + 1] # 0

\* C8 amended: a change of one byte outside the list prefix of a header that
\* is not the last makes the guest abort, with a lens construction error, the
\* chain-break assertion or the receipts-root assertion; in the last header
\* only the field head bytes, the parent hash (unless first) and the receipts
\* root (with a reward block) are protected.  Nothing is committed.
C8_CaughtMutationRejected ==
    (pin # <<>> /\ pin.defect.kind = "mutate" /\ Caught(pin)) =>
        /\ guest.status \in {"start", "run", "lens_err", "chain_break", "receipts_root"}
        /\ ~(guest.status = "run" /\ guest.headers = <<>>)
        /\ out = <<>>

C8_Witness ==
    /\ pin # <<>> /\ pin.defect.kind = "mutate" /\ Caught(pin)
    /\ pin.n = 2 /\ pin.defect.at = 0 /\ pin.defect.pos = 259
    /\ Len(guest.lenses) = 2
    /\ guest.status = "chain_break"
    /\ out = <<>>

\* reward blocks of the payload for headers before index i
RewardsBefore(i) ==
    Cardinality({b \in 1..Len(payload.reward_blocks) :
                    payload.reward_blocks[b].block_index < i})

\* C9: when the parent hash of header i is not the Keccak-256 of header
\* i - 1, validate_payload aborts on the chain-break assertion at header i,
\* with header i's reward block not consumed, and nothing is committed.
C9_ChainBreakAborts ==
    (pin # <<>> /\ pin.defect.kind = "chain_break") =>
        LET i == pin.defect.at IN
        /\ guest.status # "committed" /\ out = <<>>
        /\ Len(guest.lenses) <= i + 1
        /\ Len(guest.lenses) = i + 1 => guest.status = "chain_break"
        /\ guest.agg.block_index <= i
        /\ guest.agg.reward_blocks <= RewardsBefore(i) + 1

C9_Witness ==
    /\ pin # <<>> /\ pin.defect.kind = "chain_break"
    /\ pin.defect.at = 1 /\ pin.rw = <<1, 2>>
    /\ guest.status = "chain_break"
    /\ Len(guest.lenses) = 2
    /\ guest.agg.block_index = 1
    /\ guest.agg.reward_blocks = 2
    /\ guest.agg.fee_entry_offset = 3
    /\ out = <<>>

\* the sum of the amounts of the entries of es for asset a
RECURSIVE SumFor(_, _)
SumFor(es, a) ==
    IF Len(es) = 0 THEN 0
    ELSE (IF Head(es).asset = a THEN Head(es).amount ELSE 0) + SumFor(Tail(es), a)

\* the total for asset a over the reward blocks of headers i..n of the
\* payload's descriptor
RECURSIVE ExpectedSum(_, _, _)
ExpectedSum(d, i, a) ==
    IF i > d.n THEN 0
    ELSE (IF d.rw[i] = 0 THEN 0 ELSE SumFor(EntryLists[d.rw[i]], a))
         + ExpectedSum(d, i + 1, a)

\* C10: when the guest has accepted a payload, sums holds for every asset
\* the sum of the amounts of its fee entries over the reward blocks consumed,
\* each entry once; an asset without entries of a positive amount has no
\* total.
C10_SumsAreExact ==
    (pin # <<>> /\ guest.status = "committed") =>
        /\ DOMAIN guest.agg.sums \subseteq {Assets[a] : a \in 1..Len(Assets)}
        /\ \A a \in 1..Len(Assets) :
              (IF Assets[a] \in DOMAIN guest.agg.sums
               THEN guest.agg.sums[Assets[a]] ELSE 0) = ExpectedSum(pin, 1, a)

C10_Witness ==
    /\ pin # <<>> /\ guest.status = "committed"
    /\ pin.rw = <<1, 2>> /\ pin.defect.kind = "stray"
    /\ guest.agg.fee_entry_offset = 4
    /\ guest.agg.sums[Assets[1]] = 1000005
    /\ guest.agg.sums[Assets[2]] = 3

\* the 32-byte total of the j-th record (from 1) of the output
OutTotal(j) == SubSeq(out, 84 + 52 * (j - 1) + 21, 84 + 52 * j)

\* C11: an entry of amount zero inserts nothing into sums: every key of
\* sums has a positive total at every point of the guest's run, and once the
\* payload is accepted an asset is a key exactly when a consumed entry for it
\* has a positive amount, so that no record of the output has a zero total.
C11_NoZeroTotals ==
    (pin # <<>> /\ guest # <<>>) =>
        /\ \A a \in DOMAIN guest.agg.sums : guest.agg.sums[a] > 0
        /\ guest.status = "committed" =>
              /\ \A a \in 1..Len(Assets) :
                    Assets[a] \in DOMAIN guest.agg.sums <=> ExpectedSum(pin, 1, a) > 0
              /\ \A j \in 1..((Len(out) - 84) \div 52) : OutTotal(j) # U256Bytes(0)

C11_Witness ==
    /\ pin # <<>> /\ pin.defect.kind = "none" /\ pin.rw = <<1>>
    /\ guest.status = "committed"
    /\ guest.agg.fee_entry_offset = 3
    /\ DOMAIN guest.agg.sums = {Assets[1]}
    /\ Len(out) = 84 + 52
    /\ OutTotal(1) = U256Bytes(1000005)

\* the fee entries of the reward blocks of the headers before index i
RECURSIVE EntriesBefore(_, _)
EntriesBefore(d, i) ==
    IF i = 0 THEN 0
    ELSE (IF d.rw[i] = 0 THEN 0 ELSE Len(EntryLists[d.rw[i]])) + EntriesBefore(d, i - 1)

\* the total for asset a over the reward blocks of the headers before index i
SumBefore(d, i, a) == ExpectedSum(d, 1, a) - ExpectedSum(d, i + 1, a)

\* sums holds what the reward blocks of the headers before index i add up to
SumsAreThoseBefore(i) ==
    \A a \in 1..Len(Assets) :
        (IF Assets[a] \in DOMAIN guest.agg.sums
         THEN guest.agg.sums[Assets[a]] ELSE 0) = SumBefore(pin, i, a)

\* C12: when the log that a consumed reward block points at was not emitted
\* by payload.angstrom, the guest aborts on the emitter assertion at that
\* block, with the fee cursor and the sums as the blocks before it left
\* them, and commits nothing.
C12_ForeignLogAborts ==
    (pin # <<>> /\ pin.defect.kind = "address") =>
        LET i == pin.defect.at IN
        /\ guest.status \in {"start", "run", "address"} /\ out = <<>>
        /\ Len(guest.lenses) <= i + 1
        /\ Len(guest.lenses) = i + 1 => guest.status = "address"
        /\ guest.status = "address" =>
              /\ guest.agg.fee_entry_offset = EntriesBefore(pin, i)
              /\ SumsAreThoseBefore(i)

C12_Witness ==
    /\ pin # <<>> /\ pin.defect.kind = "address" /\ pin.defect.at = 1
    /\ pin.rw = <<1, 2>>
    /\ guest.status = "address"
    /\ Len(guest.lenses) = 2
    /\ payload.reward_blocks[2].receipt.logs[2].address = OtherEmitter
    /\ guest.agg.fee_entry_offset = 3
    /\ guest.agg.sums[Assets[1]] = 1000005
    /\ out = <<>>

\* C13: when the root recomputed from a consumed reward block's proof and
\* receipt is not the receipts root of the header at its block index, the
\* guest aborts on the receipts-root assertion at that block; sums is then
\* what the earlier blocks left, and nothing is committed.
C13_RootMismatchAborts ==
    (pin # <<>> /\ guest # <<>>) =>
        /\ guest.status = "receipts_root" =>
              /\ SumsAreThoseBefore(guest.agg.block_index - 1)
              /\ out = <<>>
        /\ pin.defect.kind = "bad_root" =>
              /\ guest.status \in {"start", "run", "receipts_root"} /\ out = <<>>
              /\ Len(guest.lenses) <= pin.defect.at + 1
              /\ Len(guest.lenses) = pin.defect.at + 1 =>
                    /\ guest.status = "receipts_root"
                    /\ guest.agg.block_index = pin.defect.at + 1

C13_Witness ==
    /\ pin # <<>> /\ pin.defect.kind = "bad_root" /\ pin.defect.at = 1
    /\ pin.rw = <<1, 2>>
    /\ guest.status = "receipts_root"
    /\ Len(guest.lenses) = 2
    /\ guest.agg.fee_entry_offset = 4
    /\ guest.agg.sums[Assets[1]] = 1000005
    /\ Assets[2] \notin DOMAIN guest.agg.sums
    /\ out = <<>>

\* the reward block the guest took last, and its slice of fee_entries
LastBlock == payload.reward_blocks[guest.agg.reward_blocks - 1]

LastSlice ==
    SubSeq(payload.fee_entries,
           (guest.agg.fee_entry_offset - LastBlock.fee_entries) * FEE_ENTRY_SIZE + 1,
           guest.agg.fee_entry_offset * FEE_ENTRY_SIZE)

\* Keccak-256 of the block's fee-entry slice is the first 32 bytes of the
\* data of the log the block points at
CommitmentHolds ==
    LET data == LastBlock.receipt.logs[LastBlock.log_index + 1].data
    IN  /\ Len(data) >= HASH_BYTES
        /\ SubSeq(data, 1, HASH_BYTES) = RefKeccak(payload.tbl, LastSlice).out

\* C14: the fee-commitment check of a reward block fails exactly when
\* Keccak-256 of the block's fee-entry slice is not the first 32 bytes of
\* log.data, whatever follows those 32 bytes; when it differs the guest
\* aborts at that block.
C14_CommitmentOnFirst32 ==
    (pin # <<>> /\ guest # <<>>) =>
        /\ guest.status = "fee_hash" => ~CommitmentHolds
        /\ pin.defect.kind = "bad_hash" =>
              /\ guest.status \in {"start", "run", "fee_hash"} /\ out = <<>>
              /\ Len(guest.lenses) = pin.defect.at + 1 => guest.status = "fee_hash"

\* every header of the payload is read and chain-checked and every reward
\* block the aggregator took has passed its checks
AllChecked ==
    /\ guest.status = "run" /\ guest.headers = <<>>
    /\ ConcatLenses(guest.lenses) = payload.headers
    /\ guest.agg.block_index = Len(guest.lenses)
    /\ \A i \in 2..Len(guest.lenses) :
          parent_hash(guest.lenses[i]) = LensHash(payload.tbl, guest.lenses[i - 1]).out

\* C15: the output is written at most once, in a step taken when every
\* header has been read and chain-checked and every consumed reward block has
\* passed its checks; while the guest has not committed, and after any failed
\* check, the output stays empty.
C15_CommitOnceOrNothing ==
    /\ []((pin # <<>> /\ guest # <<>>) =>
            /\ out # <<>> <=> guest.status = "committed"
            /\ Aborted => out = <<>>)
    /\ [][(pin # <<>> /\ out' # out) =>
            /\ out = <<>> /\ AllChecked
            /\ guest'.status = "committed"
            /\ Len(out') >= 84]_vars

C15_Witness ==
    /\ pin # <<>> /\ pin.defect.kind = "none" /\ pin.rw = <<2, 1>>
    /\ guest.status = "committed"
    /\ Len(guest.lenses) = 2 /\ guest.agg.reward_blocks = 3
    /\ Len(out) = 84 + 2 * 52

\* the assets of the entries es with a positive amount that are not in
\* order yet, added to order in the order of the entries
RECURSIVE InsertedBy(_, _)
InsertedBy(es, order) ==
    IF Len(es) = 0 THEN order
    ELSE InsertedBy(Tail(es),
            IF Head(es).amount > 0 /\ \A j \in 1..Len(order) : order[j] # Assets[Head(es).asset]
            THEN Append(order, Assets[Head(es).asset])
            ELSE order)

\* the keys of sums in the order the reward blocks of headers i..n insert
\* them
RECURSIVE InsertionOrder(_, _, _)
InsertionOrder(d, i, order) ==
    IF i > d.n THEN order
    ELSE InsertionOrder(d, i + 1,
            IF d.rw[i] = 0 THEN order ELSE InsertedBy(EntryLists[d.rw[i]], order))

\* C16: the committed output is angstrom, chain_parent, chain_last and then
\* one 52-byte record (asset, total as 32 bytes big-endian) per key of sums,
\* each asset once, in the order in which the assets were first inserted
\* into sums.
C16_OutputInInsertionOrder ==
    (pin # <<>> /\ guest.status = "committed") =>
        /\ Len(out) = 84 + 52 * Cardinality(DOMAIN guest.agg.sums)
        /\ out = Output(payload, guest.chain_parent, guest.last_hash, guest.agg.sums,
                        InsertionOrder(pin, 1, <<>>))

\* C18: when the guest commits, every reward block of the payload has been
\* taken by the header at its block index and verified, and the fee cursor
\* stands at the end of fee_entries; a payload with a reward block whose
\* block index is past the headers is rejected.
C18_NothingSkipped ==
    (pin # <<>> /\ guest.status = "committed") =>
        /\ guest.agg.reward_blocks = Len(payload.reward_blocks) + 1
        /\ guest.agg.fee_entry_offset * FEE_ENTRY_SIZE = Len(payload.fee_entries)
        /\ \A b \in 1..Len(payload.reward_blocks) :
              payload.reward_blocks[b].block_index < Len(guest.lenses)


\* ------------------------------------------------- the fee-summary inspector

\* the longest byte slice handed to FeeSummaryInspector::try_from
MaxFeeLen == 109

\* the slices: every length up to MaxFeeLen, two contents of each
FeeSlices == { Msg(seed, n) : seed \in {5, 77}, n \in 0..MaxFeeLen }

FeeInit ==
    /\ KeccakIdle
    /\ LensIdle
    /\ GuestIdle
    /\ TrieIdle
    /\ BuiltIdle
    /\ \E bs \in FeeSlices :
          fee = [at |-> "slice", bytes |-> bs, inspector |-> <<>>,
                 index |-> 0, entry |-> <<>>]

\* FeeSummaryInspector::try_from(&bytes)
FeeTryFrom ==
    /\ fee # <<>>
    /\ fee.at = "slice"
    /\ fee' = [fee EXCEPT !.inspector = FeeSummaryInspector(fee.bytes),
                          !.at = IF FeeSummaryInspector(fee.bytes).ok
                                 THEN "inspector" ELSE "error"]
    /\ UNCHANGED <<keccakVars, lensVars, guestVars, trie, built>>

\* inspector[index]: the range index * 36 .. panics when it starts past the
\* end of the slice, and the 36 bytes after it when fewer are left
FeeIndexed(f, index) ==
    IF (index + 1) * FEE_ENTRY_SIZE > Len(f.inspector.bytes)
    THEN [f EXCEPT !.at = "panic", !.index = index]
    ELSE [f EXCEPT !.at = "entry", !.index = index,
                   !.entry = FeeIndex(f.inspector, index)]

FeeIndexAt ==
    /\ fee # <<>>
    /\ fee.at = "inspector"
    /\ \E index \in 0..(Len(fee.bytes) \div FEE_ENTRY_SIZE) :
          fee' = FeeIndexed(fee, index)
    /\ UNCHANGED <<keccakVars, lensVars, guestVars, trie, built>>

FeeNext == FeeTryFrom \/ FeeIndexAt

SpecFee == FeeInit /\ [][FeeNext]_vars

\* C19: try_from succeeds exactly on a slice whose length is a multiple of 36,
\* and otherwise returns DoesNotHoldEvenEntries carrying the length; an
\* inspector that exists holds the whole slice, of a length that is a
\* multiple of 36, and index i below len / 36 gives bytes [36 i, 36 i + 36)
C19_InspectorHoldsEvenEntries ==
    fee # <<>> =>
        /\ fee.at = "error" =>
              /\ Len(fee.bytes) % 36 # 0
              /\ ~fee.inspector.ok
              /\ fee.inspector.length = Len(fee.bytes)
        /\ fee.at \in {"inspector", "entry", "panic"} =>
              /\ Len(fee.bytes) % 36 = 0
              /\ fee.inspector.ok
              /\ fee.inspector.bytes = fee.bytes
        /\ fee.at = "entry" =>
              /\ fee.index < Len(fee.bytes) \div 36
              /\ fee.entry = [j \in 1..36 |-> fee.bytes[36 * fee.index + j]]
        /\ fee.at = "panic" => fee.index >= Len(fee.bytes) \div 36

\* the third entry of a slice of three entries has been taken
C19_Witness ==
    /\ fee # <<>>
    /\ fee.at = "entry"
    /\ Len(fee.bytes) = 108
    /\ fee.index = 2

\* ------------------------------------------------------ the payload builder

\* the most receipts of a block, and the most logs of a receipt
MaxReceipts == 2
MaxLogs == 2

\* the reward hash the fee-summary map has an entry for, and one it lacks
KnownHash == Msg(40, 32)
UnknownHash == Msg(41, 32)

\* fee_summary_oracle, by its keys
FeeSummaryOracle == {KnownHash}

\* the logs of a receipt: from either emitter, with data that starts by a hash
\* of the map, by a hash the map lacks, or that is shorter than a hash
BuildLogs ==
    [address : {Angstrom}, data : {KnownHash \o <<B(7)>>, UnknownHash, Take(KnownHash, 31)}]
    \cup [address : {OtherEmitter}, data : {KnownHash, Take(KnownHash, 31)}]

SeqsUpTo(S, n) == UNION { [1..k -> S] : k \in 0..n }

BuildReceipts == { [ty |-> 2, logs |-> logs] : logs \in SeqsUpTo(BuildLogs, MaxLogs) }

BuildInit ==
    /\ KeccakIdle
    /\ LensIdle
    /\ GuestIdle
    /\ FeeIdle
    /\ TrieIdle
    /\ \E receipts \in SeqsUpTo(BuildReceipts, MaxReceipts) :
          built = [at |-> "receipts", receipts |-> receipts,
                   receipt_index |-> 0, log_index |-> 0, reward_hash |-> <<>>]

\* the closure over a receipt's logs, lines 45-51, from log j on (from 1):
\* the first log of the emitter ends the search, and data[0..32] panics when
\* its data is shorter than 32 bytes
RECURSIVE FindLog(_, _, _)
FindLog(logs, angstrom, j) ==
    IF j > Len(logs) THEN [at |-> "none"]
    ELSE IF logs[j].address # angstrom THEN FindLog(logs, angstrom, j + 1)
    ELSE IF Len(logs[j].data) < 32 THEN [at |-> "panic"]
    ELSE [at |-> "some", log_index |-> j - 1, reward_hash |-> Take(logs[j].data, 32)]

\* the find_map over the receipts, lines 41-53, from receipt i on (from 1);
\* expect panics when no receipt has a log of the emitter
RECURSIVE FindReceipt(_, _, _)
FindReceipt(receipts, angstrom, i) ==
    IF i > Len(receipts) THEN [at |-> "panic"]
    ELSE IF FindLog(receipts[i].logs, angstrom, 1).at = "none"
         THEN FindReceipt(receipts, angstrom, i + 1)
    ELSE IF FindLog(receipts[i].logs, angstrom, 1).at = "panic" THEN [at |-> "panic"]
    ELSE [at |-> "some", receipt_index |-> i - 1,
          log_index |-> FindLog(receipts[i].logs, angstrom, 1).log_index,
          reward_hash |-> FindLog(receipts[i].logs, angstrom, 1).reward_hash]

\* fee_summary_oracle.get(&reward_hash).expect(..), lines 55-57
OracleGet(b, found, oracle) ==
    IF found.at = "panic" THEN [b EXCEPT !.at = "panic"]
    ELSE IF found.reward_hash \notin oracle
    THEN [b EXCEPT !.at = "panic", !.receipt_index = found.receipt_index,
                   !.log_index = found.log_index, !.reward_hash = found.reward_hash]
    ELSE [b EXCEPT !.at = "selected", !.receipt_index = found.receipt_index,
                   !.log_index = found.log_index, !.reward_hash = found.reward_hash]

\* build_payload on a block with receipts, lines 40-57
BuildBlock ==
    /\ built # <<>>
    /\ built.at = "receipts"
    /\ built' = OracleGet(built, FindReceipt(built.receipts, Angstrom, 1), FeeSummaryOracle)
    /\ UNCHANGED <<keccakVars, lensVars, guestVars, fee, trie>>

BuildNext == BuildBlock

SpecBuild == BuildInit /\ [][BuildNext]_vars

\* log j (from 0) of receipt i (from 0) is of the emitter and its first 32
\* data bytes are a reward hash of the map
Qualifies(receipts, i, j) ==
    /\ i < Len(receipts)
    /\ j < Len(receipts[i + 1].logs)
    /\ receipts[i + 1].logs[j + 1].address = Angstrom
    /\ Len(receipts[i + 1].logs[j + 1].data) >= 32
    /\ Take(receipts[i + 1].logs[j + 1].data, 32) \in FeeSummaryOracle

\* pair (i, j) comes before pair (k, l) in the scan
Leftmost(i, j, k, l) == i < k \/ (i = k /\ j <= l)

\* C20: when some (receipt, log) pair has the emitter's address and a reward
\* hash of the map in its first 32 data bytes, build_payload selects the
\* leftmost such pair, passing over the emitter's logs with an absent hash or
\* with data shorter than 32 bytes that come before it
C20_LeftmostQualifyingSelected ==
    (built # <<>> /\ built.at # "receipts") =>
        \A i \in 0..(MaxReceipts - 1), j \in 0..(MaxLogs - 1) :
            (/\ Qualifies(built.receipts, i, j)
             /\ \A k \in 0..(MaxReceipts - 1), l \in 0..(MaxLogs - 1) :
                    Qualifies(built.receipts, k, l) => Leftmost(i, j, k, l))
            => /\ built.at = "selected"
               /\ built.receipt_index = i
               /\ built.log_index = j


\* ------------------------------------------------------- the receipts trie

\* the receipt at index j of the list of a kind: kind 1 has receipts of one
\* log, kind 2 mixes typed receipts of two logs, receipts whose encoding
\* takes two length bytes, and receipts of one log; in kind 3 the emitter's
\* log is the second log of the second receipt, and kind 4 has a reward hash
\* of its own
TrieReceipt(kind, j) ==
    IF kind = 1 THEN ReceiptWith(1, Angstrom, Msg(7 * j + 1, 32))
    ELSE IF kind = 3
    THEN (IF j % 2 = 0 THEN ReceiptWith(1, OtherEmitter, Msg(1, 32))
          ELSE ReceiptWith(2, Angstrom, Msg(13, 32)))
    ELSE IF kind = 4 THEN ReceiptWith(1, Angstrom, Msg(99, 32))
    ELSE IF j % 3 = 0 THEN ReceiptWith(2, Angstrom, Msg(5 * j + 2, 32))
    ELSE IF j % 3 = 1 THEN ReceiptWith(1, OtherEmitter, Msg(3 * j, 260))
    ELSE ReceiptWith(1, Angstrom, Msg(11 * j, 40))

\* items[j].encode_2718
TrieValue(kind, j) == encode_2718(TrieReceipt(kind, j))

\* alloy_trie::root::adjust_index_for_rlp: the order the leaves are added in
adjust_index_for_rlp(i, len) ==
    IF i > 127 THEN i
    ELSE IF i = 127 \/ i + 1 = len THEN 0
    ELSE i + 1

\* the RLP encoding of an index (u32 or usize), as byte values
RlpIndex(index) ==
    IF index = 0 THEN <<128>>
    ELSE IF index < 128 THEN <<index>>
    ELSE IF index < 256 THEN <<129, index>>
    ELSE <<130, index \div 256, index % 256>>

\* Nibbles::unpack
Unpack(bytes) ==
    [i \in 1..(2 * Len(bytes)) |->
        IF i % 2 = 1 THEN bytes[(i + 1) \div 2] \div 16 ELSE bytes[i \div 2] % 16]

\* the trie key of the receipt at an index
TrieKey(index) == Unpack(RlpIndex(index))

\* the hex-prefix (compact) encoding of a path of nibbles
CompactPath(nibs, flag) ==
    IF Len(nibs) % 2 = 1
    THEN <<B(flag + ODD_NIBBLES_FLAG + nibs[1])>>
         \o [i \in 1..(Len(nibs) \div 2) |-> B(16 * nibs[2 * i] + nibs[2 * i + 1])]
    ELSE <<B(flag)>>
         \o [i \in 1..(Len(nibs) \div 2) |-> B(16 * nibs[2 * i - 1] + nibs[2 * i])]

\* a byte string as an RLP string
RlpBytes(bs) ==
    IF Len(bs) = 1 /\ IsConcrete(bs[1]) /\ Val(bs[1]) < RLP_STR_OFFSET THEN bs
    ELSE IF Len(bs) <= RLP_MAX_PACKED_LEN THEN <<B(RLP_STR_OFFSET + Len(bs))>> \o bs
    ELSE <<B(RLP_STR_OFFSET + RLP_MAX_PACKED_LEN + Len(BeBytes(Len(bs))))>>
         \o BeBytes(Len(bs)) \o bs

\* a list of the given payload
RlpList(items) == RlpListHeader(Len(items)) \o items

\* the indices of J whose key has nibble x after the first d nibbles
KeysAt(J, d, x) == { j \in J : TrieKey(j)[d + 1] = x }

\* the length of the path shared by the keys of J after the first d nibbles
RECURSIVE SharedFrom(_, _)
SharedFrom(J, d) ==
    IF \E x \in 0..15 : KeysAt(J, d, x) = J THEN 1 + SharedFrom(J, d + 1) ELSE 0

AnyOf(J) == CHOOSE j \in J : TRUE

\* ------------------------------------ the reference Merkle-Patricia trie
\* The trie over rlp(index) -> encode_2718(receipt) as the Ethereum yellow
\* paper defines it, hashing with the permutation of a table that holds
\* every state the hashing meets.

\* a node as it appears in its parent: itself when shorter than 32 bytes,
\* else its hash as a string
RefChild(tbl, node) ==
    IF Len(node) < HASH_BYTES THEN node ELSE RlpBytes(RefKeccak(tbl, node).out)

RECURSIVE RefNode(_, _, _, _)
RECURSIVE RefBranchItems(_, _, _, _, _)

\* the children x..15 of the branch over J at depth d
RefBranchItems(tbl, kind, J, d, x) ==
    IF x > 15 THEN <<>>
    ELSE (IF KeysAt(J, d, x) = {} THEN <<B(RLP_STR_OFFSET)>>
          ELSE RefChild(tbl, RefNode(tbl, kind, KeysAt(J, d, x), d + 1)))
         \o RefBranchItems(tbl, kind, J, d, x + 1)

\* the node over the keys of J, which share their first d nibbles
RefNode(tbl, kind, J, d) ==
    IF Cardinality(J) = 1
    THEN RlpList(RlpBytes(CompactPath(Drop(TrieKey(AnyOf(J)), d), LEAF_PATH_FLAG))
                 \o RlpBytes(TrieValue(kind, AnyOf(J))))
    ELSE IF SharedFrom(J, d) > 0
    THEN RlpList(RlpBytes(CompactPath(SubSeq(TrieKey(AnyOf(J)), d + 1, d + SharedFrom(J, d)),
                                      EXTENSION_PATH_FLAG))
                 \o RefChild(tbl, RefNode(tbl, kind, J, d + SharedFrom(J, d))))
    ELSE RlpList(RefBranchItems(tbl, kind, J, d, 0) \o <<B(RLP_STR_OFFSET)>>)

\* the receipts root of the list of n receipts of a kind
ReferenceRoot(tbl, kind, n) == RefKeccak(tbl, RefNode(tbl, kind, 0..(n - 1), 0)).out


\* ------------------------------------- alloy_trie::HashBuilder, retaining
\* A result is the permutation table after the hashing so far, the node (or
\* the branch items) and the retained proof nodes, each with the length of
\* the path that leads to it.

HbRef(r, h) == [tbl |-> h.tbl, item |-> RlpBytes(h.out), proof |-> r.proof]

\* a node as it appears in its parent (RlpNode::from_rlp)
HbChild(r) ==
    IF Len(r.node) < HASH_BYTES THEN [tbl |-> r.tbl, item |-> r.node, proof |-> r.proof]
    ELSE HbRef(r, RefKeccak(r.tbl, r.node))

\* ProofRetainer::retain: the node is kept when its path leads to the target
HbMade(c, node, J, d, target) ==
    [tbl |-> c.tbl, node |-> node,
     proof |-> (IF target \in J THEN << [key_len |-> d, node |-> node] >> ELSE <<>>)
               \o c.proof]

HbJoined(l, r) == [tbl |-> r.tbl, item |-> l.item \o r.item, proof |-> l.proof \o r.proof]

RECURSIVE HbNode(_, _, _, _, _)
RECURSIVE HbItems(_, _, _, _, _, _, _)

\* the items after those of l (l is evaluated before the rest is)
HbJoin(l, kind, J, d, mid, hi, target) ==
    IF Len(l.item) = 0 THEN l
    ELSE HbJoined(l, HbItems(l.tbl, kind, J, d, mid, hi, target))

\* the children lo..hi-1 of the branch over J at depth d (the range is
\* halved to keep the evaluation shallow)
HbItems(tbl, kind, J, d, lo, hi, target) ==
    IF hi = lo + 1
    THEN IF KeysAt(J, d, lo) = {}
         THEN [tbl |-> tbl, item |-> <<B(RLP_STR_OFFSET)>>, proof |-> <<>>]
         ELSE HbChild(HbNode(tbl, kind, KeysAt(J, d, lo), d + 1, target))
    ELSE HbJoin(HbItems(tbl, kind, J, d, lo, (lo + hi) \div 2, target),
                kind, J, d, (lo + hi) \div 2, hi, target)

HbExtension(c, J, d, target) ==
    HbMade(c, RlpList(RlpBytes(CompactPath(SubSeq(TrieKey(AnyOf(J)), d + 1,
                                                  d + SharedFrom(J, d)),
                                           EXTENSION_PATH_FLAG))
                      \o c.item),
           J, d, target)

HbBranch(c, J, d, target) ==
    HbMade(c, RlpList(c.item \o <<B(RLP_STR_OFFSET)>>), J, d, target)

\* the node over the leaves of J, whose keys share their first d nibbles
HbNode(tbl, kind, J, d, target) ==
    IF Cardinality(J) = 1
    THEN HbMade([tbl |-> tbl, proof |-> <<>>],
                RlpList(RlpBytes(CompactPath(Drop(TrieKey(AnyOf(J)), d), LEAF_PATH_FLAG))
                        \o RlpBytes(TrieValue(kind, AnyOf(J)))),
                J, d, target)
    ELSE IF SharedFrom(J, d) > 0
    THEN HbExtension(HbChild(HbNode(tbl, kind, J, d + SharedFrom(J, d), target)),
                     J, d, target)
    ELSE HbBranch(HbItems(tbl, kind, J, d, 0, 16, target), J, d, target)

\* hb.root(): the root node is hashed
HbRoot(r) == [panic |-> FALSE, tbl |-> RefKeccak(r.tbl, r.node).tbl, proof |-> r.proof]

\* hash_and_get_proof_nodes(items, index) for the n receipts of a kind
hash_and_get_proof_nodes(tbl, kind, n, index) ==
    IF index >= n THEN [panic |-> TRUE, tbl |-> tbl, proof |-> <<>>]
    ELSE HbRoot(HbNode(tbl, kind, { adjust_index_for_rlp(i, n) : i \in 0..(n - 1) },
                       0, index))


\* --------------------------------------------------- get_proof_for_receipt

\* alloy_rlp::Header::decode: whether the item is a list, where its payload
\* starts (from 1) and how long it is; a single byte below 0x80 is its own
\* payload
DecodeHead(bs) ==
    IF Len(bs) = 0 \/ Val(bs[1]) < 0 THEN [ok |-> FALSE]
    ELSE IF Val(bs[1]) < RLP_STR_OFFSET
    THEN [ok |-> TRUE, list |-> FALSE, start |-> 1, len |-> 1]
    ELSE IF Val(bs[1]) <= RLP_STR_OFFSET + RLP_MAX_PACKED_LEN
    THEN [ok |-> Len(bs) >= 1 + Val(bs[1]) - RLP_STR_OFFSET, list |-> FALSE,
          start |-> 2, len |-> Val(bs[1]) - RLP_STR_OFFSET]
    ELSE IF Val(bs[1]) < RLP_LIST_OFFSET
    THEN [ok |-> /\ Len(bs) >= 1 + Val(bs[1]) - 183
                 /\ Len(bs) >= 1 + Val(bs[1]) - 183
                               + UsizeBE(SubSeq(bs, 2, 1 + Val(bs[1]) - 183)),
          list |-> FALSE,
          start |-> 2 + Val(bs[1]) - 183,
          len |-> UsizeBE(SubSeq(bs, 2, 1 + Val(bs[1]) - 183))]
    ELSE IF Val(bs[1]) <= RLP_LIST_OFFSET + RLP_MAX_PACKED_LEN
    THEN [ok |-> Len(bs) >= 1 + Val(bs[1]) - RLP_LIST_OFFSET, list |-> TRUE,
          start |-> 2, len |-> Val(bs[1]) - RLP_LIST_OFFSET]
    ELSE [ok |-> /\ Len(bs) >= 1 + Val(bs[1]) - 247
                 /\ Len(bs) >= 1 + Val(bs[1]) - 247
                               + UsizeBE(SubSeq(bs, 2, 1 + Val(bs[1]) - 247)),
          list |-> TRUE,
          start |-> 2 + Val(bs[1]) - 247,
          len |-> UsizeBE(SubSeq(bs, 2, 1 + Val(bs[1]) - 247))]

DecodeFail == [panic |-> TRUE, list |-> <<>>]

RECURSIVE DecodeItems(_, _)

DecodeNext(view, acc, h) ==
    IF ~h.ok \/ h.list THEN DecodeFail
    ELSE DecodeItems(Drop(view, h.start + h.len - 1),
                     Append(acc, SubSeq(view, h.start, h.start + h.len - 1)))

\* the loop of rlp_decode: get_next::<Bytes> until the view is empty
DecodeItems(view, acc) ==
    IF Len(view) = 0 THEN [panic |-> FALSE, list |-> acc]
    ELSE DecodeNext(view, acc, DecodeHead(view))

DecodeList(encoded, h) ==
    IF ~h.ok \/ ~h.list THEN DecodeFail
    ELSE DecodeItems(SubSeq(encoded, h.start, h.start + h.len - 1), <<>>)

\* rlp_decode(payload).unwrap(): the strings of an RLP list; an item that is
\* itself a list is an error
rlp_decode(encoded) == DecodeList(encoded, DecodeHead(encoded))

\* TriePath::is_odd
is_odd(path) == BitAnd(Val(path[1]), ODD_NIBBLES_FLAG) # 0

\* TriePath::is_leaf
is_leaf(path) == BitAnd(Val(path[1]), PATH_FLAG_MASK) = LEAF_PATH_FLAG

\* TriePath::is_extension
is_extension(path) == BitAnd(Val(path[1]), PATH_FLAG_MASK) = EXTENSION_PATH_FLAG

\* a value as u8
U8(n) == n % 256

\* TriePath::nibbles without the odd nibble
nibbles_Even(path) == U8(U8(U8(Len(path)) - 1) * 2)

\* TriePath::nibbles, in u8 arithmetic that wraps: self.len() as u8 keeps the
\* low eight bits of the length
nibbles(path) == U8(U8(U8(Len(path)) - 1) * 2 + (IF is_odd(path) THEN 1 ELSE 0))

\* TriePath::bytes
bytes(path) == U8(U8(U8(Len(path)) - 1) + (IF is_odd(path) THEN 1 ELSE 0))

\* the subtraction, the multiplication or the addition of nibbles leaves u8:
\* a panic in a build with overflow checks, a wrapped value in one without
nibbles_overflows(path) ==
    \/ U8(Len(path)) = 0
    \/ (U8(Len(path)) - 1) * 2 + (IF is_odd(path) THEN 1 ELSE 0) > 255

\* TriePath::new returns: the two assertions hold, and nibbles() did not
\* panic in a build with overflow checks
IsTriePath(path, overflow_checks) ==
    /\ Len(path) >= 1
    /\ Val(path[1]) >= 0
    /\ ~(overflow_checks /\ nibbles_overflows(path))
    /\ nibbles(path) <= 64

\* a mutant of write_bytes: the odd nibble is not written
write_bytes_NoNibble(path) == Tail(path)

\* TriePath::write_bytes
write_bytes(path) ==
    (IF is_odd(path) THEN <<B(BitAnd(Val(path[1]), NIBBLE_MASK))>> ELSE <<>>)
    \o Tail(path)

BuilderPanic == [panic |-> TRUE, bytes |-> <<>>]

\* ProofBuilder::with_leaf_rest_path_compact
with_leaf_rest_path_compact(path, overflow_checks) ==
    IF ~IsTriePath(path, overflow_checks) THEN BuilderPanic
    ELSE IF ~is_leaf(path) THEN BuilderPanic
    ELSE [panic |-> FALSE, bytes |-> <<B(nibbles(path))>> \o write_bytes(path)]

\* ProofBuilder::add_extension
add_extension(pb, path, overflow_checks) ==
    IF ~IsTriePath(path, overflow_checks) THEN BuilderPanic
    ELSE IF ~is_extension(path) THEN BuilderPanic
    ELSE [pb EXCEPT !.bytes = @ \o <<B(EXTENSION_NODE_FLAG), B(nibbles(path))>>
                                \o write_bytes(path)]

\* add_branch: the bits of the nodes that are 32 bytes long (node i of the
\* list is child i - 1); `1 << i` on u16 takes the shift modulo 16 in a build
\* without overflow checks
BranchMap(nodes) ==
    LET set == {(i - 1) % 16 : i \in {k \in 1..Len(nodes) : Len(nodes[k]) = 32}}
        Sum[b \in 0..16] == IF b = 0 THEN 0
                            ELSE Sum[b - 1] + (IF (b - 1) \in set THEN 2^(b - 1) ELSE 0)
    IN  Sum[16]

\* `1 << i` leaves u16: a panic in a build with overflow checks
shift_overflows(nodes) == \E i \in 17..Len(nodes) : Len(nodes[i]) = 32

\* add_branch: the hashes of the children other than the one at index
RECURSIVE Siblings(_, _, _)
Siblings(nodes, index, i) ==
    IF i > Len(nodes) THEN <<>>
    ELSE (IF i - 1 # index /\ Len(nodes[i]) = 32 THEN nodes[i] ELSE <<>>)
         \o Siblings(nodes, index, i + 1)

\* ProofBuilder::add_branch
add_branch(pb, index, nodes, overflow_checks) ==
    IF index > 15 THEN BuilderPanic
    ELSE IF \E i \in 1..Len(nodes) : Len(nodes[i]) \notin {0, 32} THEN BuilderPanic
    ELSE IF overflow_checks /\ shift_overflows(nodes) THEN BuilderPanic
    ELSE [pb EXCEPT !.bytes = @ \o <<B(BRANCH_NODE_FLAG + index)>>
                                \o BeFixed(BranchMap(nodes), 2)
                                \o Siblings(nodes, index, 1)]

\* proof_steps.sort_by_key(Reverse(key.len())): a stable sort, the longest
\* path first
RECURSIVE SortSteps(_)
SortSteps(steps) ==
    IF Len(steps) = 0 THEN <<>>
    ELSE LET longest == CHOOSE i \in 1..Len(steps) :
                            /\ \A j \in 1..Len(steps) : steps[j].key_len <= steps[i].key_len
                            /\ \A j \in 1..(i - 1) : steps[j].key_len < steps[i].key_len
         IN  <<steps[longest]>>
             \o SortSteps(SubSeq(steps, 1, longest - 1)
                          \o SubSeq(steps, longest + 1, Len(steps)))

\* the closure of for_each over proof_steps[1..]
ProofStepList(pb, index_as_key, step, as_list, overflow_checks) ==
    IF as_list.panic THEN BuilderPanic
    ELSE IF Len(as_list.list) = 2 THEN add_extension(pb, as_list.list[1], overflow_checks)
    ELSE IF Len(as_list.list) # 17 THEN BuilderPanic
    ELSE add_branch(pb, index_as_key[step.key_len + 1], as_list.list, overflow_checks)

RECURSIVE ProofSteps(_, _, _, _, _)
ProofSteps(pb, index_as_key, steps, i, overflow_checks) ==
    IF pb.panic \/ i > Len(steps) THEN pb
    ELSE ProofSteps(ProofStepList(pb, index_as_key, steps[i], rlp_decode(steps[i].node),
                                  overflow_checks),
                    index_as_key, steps, i + 1, overflow_checks)

\* the leaf path: swap_remove(0) of the decoded deepest node
LeafPath(as_list, overflow_checks) ==
    IF as_list.panic \/ Len(as_list.list) = 0 THEN BuilderPanic
    ELSE with_leaf_rest_path_compact(as_list.list[1], overflow_checks)

ProofFromSteps(tbl, steps, index, overflow_checks) ==
    [tbl |-> tbl,
     proof |-> ProofSteps(LeafPath(rlp_decode(steps[1].node), overflow_checks),
                          TrieKey(index), steps, 2, overflow_checks)]

ProofFromNodes(nodes, index, overflow_checks) ==
    IF nodes.panic THEN [tbl |-> nodes.tbl, proof |-> BuilderPanic]
    ELSE ProofFromSteps(nodes.tbl, SortSteps(nodes.proof), index, overflow_checks)

\* get_proof_for_receipt(items, index) for the n receipts of a kind: the
\* permutation table after the hashing, and the proof or a panic
\* (overflow_checks: the build panics on an arithmetic overflow)
get_proof_for_receipt(tbl, kind, n, index, overflow_checks) ==
    ProofFromNodes(hash_and_get_proof_nodes(tbl, kind, n, index), index, overflow_checks)


\* the longest of the short receipt lists, and the length of the long one
\* (from 130 receipts on the trie has an extension node)
MaxTrieReceipts == 17
LongTrieReceipts == 130

\* the lists and the index proved in each: every index of the short lists of
\* both kinds, and some indices of the long list
TrieInputs ==
    { [kind |-> kind, n |-> n, index |-> index] :
        kind \in {1, 2}, n \in 1..MaxTrieReceipts, index \in 0..(MaxTrieReceipts - 1) }
    \cup { [kind |-> 2, n |-> LongTrieReceipts, index |-> index] :
             index \in {0, 1, 16, 127, 128, LongTrieReceipts - 1} }

TrieInit ==
    /\ KeccakIdle
    /\ LensIdle
    /\ GuestIdle
    /\ FeeIdle
    /\ BuiltIdle
    /\ \E in \in TrieInputs :
          /\ in.index < in.n
          /\ trie = [at |-> "receipts", kind |-> in.kind, n |-> in.n, index |-> in.index,
                     tbl |-> <<>>, proof |-> <<>>, root |-> <<>>]

TrieProved(t, g) ==
    [t EXCEPT !.at = IF g.proof.panic THEN "panic" ELSE "proof",
              !.tbl = g.tbl, !.proof = g.proof.bytes]

\* get_proof_for_receipt(block_receipts.as_slice(), i)
TrieGetProof ==
    /\ trie # <<>>
    /\ trie.at = "receipts"
    /\ \E overflow_checks \in BOOLEAN :
          trie' = TrieProved(trie, get_proof_for_receipt(trie.tbl, trie.kind, trie.n,
                                                         trie.index, overflow_checks))
    /\ UNCHANGED <<keccakVars, lensVars, guestVars, fee, built>>

TrieRooted(t, r) ==
    [t EXCEPT !.at = IF r.panic THEN "panic" ELSE "root", !.tbl = r.tbl, !.root = r.root]

\* receipt_trie_root_from_proof(&proof, encode_2718(receipt))
TrieRootFromProof ==
    /\ trie # <<>>
    /\ trie.at = "proof"
    /\ trie' = TrieRooted(trie, receipt_trie_root_from_proof(trie.tbl, trie.proof,
                                    TrieValue(trie.kind, trie.index)))
    /\ UNCHANGED <<keccakVars, lensVars, guestVars, fee, built>>

TrieNext == TrieGetProof \/ TrieRootFromProof

SpecTrie == TrieInit /\ [][TrieNext]_vars

\* C17: for a non-empty list of receipts and an index in it,
\* get_proof_for_receipt gives a proof, and receipt_trie_root_from_proof of
\* that proof and of the receipt's EIP-2718 encoding is the root of the
\* Merkle-Patricia trie over rlp(index) -> encoded receipt
C17_ProofGivesReceiptsRoot ==
    trie # <<>> =>
        /\ trie.at # "panic"
        /\ trie.at = "root" => trie.root = ReferenceRoot(trie.tbl, trie.kind, trie.n)

\* the root was computed from the proof of the last receipt of the long list,
\* whose leaf is under a branch, an extension and two more branches
C17_Witness ==
    /\ trie # <<>>
    /\ trie.at = "root"
    /\ trie.n = LongTrieReceipts
    /\ trie.index = LongTrieReceipts - 1
    /\ Len(trie.proof) > 200


\* ------------------------------------------------ build_payload, all blocks

\* the most blocks given to build_payload
MaxBlocks == 3

\* the receipts of a block: none, or the n receipts of a kind
CraftReceipts ==
    { [kind |-> 0, n |-> 0], [kind |-> 1, n |-> 1], [kind |-> 2, n |-> 3],
      [kind |-> 3, n |-> 2], [kind |-> 3, n |-> 1], [kind |-> 4, n |-> 1] }

\* a block: its header (one of two) and its receipts
CraftBlocks == [header : {1, 2}, receipts : CraftReceipts]

ReceiptList(r) == [j \in 1..r.n |-> TrieReceipt(r.kind, j - 1)]

\* fee_summary_oracle: the entries (an index in EntryLists) of a reward hash
CraftOracle == (Msg(1, 32) :> 1) @@ (Msg(2, 32) :> 2) @@ (Msg(13, 32) :> 3)

\* header.encode(&mut headers)
CraftHeader(block) == EncodeHeader(HeaderAt(block.header, 3))

CraftInit ==
    /\ KeccakIdle
    /\ LensIdle
    /\ GuestIdle
    /\ FeeIdle
    /\ TrieIdle
    /\ \E blocks \in SeqsUpTo(CraftBlocks, MaxBlocks) :
          built = [at |-> "blocks", blocks |-> blocks, payload |-> <<>>]

CraftPanic(acc) == [acc EXCEPT !.panic = TRUE]

\* reward_blocks.push(RewardBlock { .. }), lines 63-69, with the block's
\* position counted over the reward blocks already pushed
CraftPush_CountRewards(acc, block, block_index, found, entries, g) ==
    IF g.proof.panic THEN CraftPanic(acc)
    ELSE [acc EXCEPT
            !.tbl = g.tbl,
            !.fee_entries = @ \o EntryBytes(entries),
            !.reward_blocks = Append(@,
                [block_index |-> Len(acc.reward_blocks),
                 proof |-> g.proof.bytes,
                 receipt |-> ReceiptList(block.receipts)[found.receipt_index + 1],
                 log_index |-> found.log_index,
                 fee_entries |-> Len(entries)])]

\* the fee entries appended, lines 59-61, and reward_blocks.push, lines 63-69
CraftPush(acc, block, block_index, found, entries, g) ==
    IF g.proof.panic THEN CraftPanic(acc)
    ELSE [acc EXCEPT
            !.tbl = g.tbl,
            !.fee_entries = @ \o EntryBytes(entries),
            !.reward_blocks = Append(@,
                [block_index |-> block_index,
                 proof |-> g.proof.bytes,
                 receipt |-> ReceiptList(block.receipts)[found.receipt_index + 1],
                 log_index |-> found.log_index,
                 fee_entries |-> Len(entries)])]

\* the search's result and the oracle's entry, lines 53-57
CraftFound(acc, block, block_index, found, overflow_checks) ==
    IF found.at = "panic" THEN CraftPanic(acc)
    ELSE IF found.reward_hash \notin DOMAIN CraftOracle THEN CraftPanic(acc)
    ELSE CraftPush(acc, block, block_index, found,
                   EntryLists[CraftOracle[found.reward_hash]],
                   get_proof_for_receipt(acc.tbl, block.receipts.kind, block.receipts.n,
                                         found.receipt_index, overflow_checks))

\* the body of the loop over the blocks, lines 39-70, after header.encode
CraftReceiptsOf(acc, block, block_index, overflow_checks) ==
    IF block.receipts.kind = 0 THEN acc
    ELSE CraftFound(acc, block, block_index,
                    FindReceipt(ReceiptList(block.receipts), Angstrom, 1), overflow_checks)

\* the loop over blocks.into_iter().zip(0..), from block i on (from 1)
RECURSIVE CraftFrom(_, _, _, _)
CraftFrom(acc, blocks, i, overflow_checks) ==
    IF acc.panic \/ i > Len(blocks) THEN acc
    ELSE CraftFrom(CraftReceiptsOf([acc EXCEPT !.headers = @ \o CraftHeader(blocks[i])],
                                   blocks[i], i - 1, overflow_checks),
                   blocks, i + 1, overflow_checks)

\* build_payload(blocks, angstrom, fee_summary_oracle)
build_payload(blocks, angstrom, overflow_checks) ==
    CraftFrom([panic |-> FALSE, tbl |-> <<>>, angstrom |-> angstrom, headers |-> <<>>,
               reward_blocks |-> <<>>, fee_entries |-> <<>>],
              blocks, 1, overflow_checks)

CraftBuilt(b, p) == [b EXCEPT !.at = IF p.panic THEN "panic" ELSE "payload", !.payload = p]

CraftPayload ==
    /\ built # <<>>
    /\ built.at = "blocks"
    /\ \E overflow_checks \in BOOLEAN :
          built' = CraftBuilt(built, build_payload(built.blocks, Angstrom, overflow_checks))
    /\ UNCHANGED <<keccakVars, lensVars, guestVars, fee, trie>>

CraftNext == CraftPayload

SpecCraft == CraftInit /\ [][CraftNext]_vars

\* the RLP encodings of the headers of blocks i.. one after another
RECURSIVE HeadersFrom(_, _)
HeadersFrom(blocks, i) ==
    IF i > Len(blocks) THEN <<>>
    ELSE EncodeHeader(HeaderAt(blocks[i].header, 3)) \o HeadersFrom(blocks, i + 1)

\* the positions (from 0) of the blocks that have receipts
WithReceipts(blocks) == { i \in 0..(Len(blocks) - 1) : blocks[i + 1].receipts.kind # 0 }

\* the k-th (from 1) smallest member of a set of numbers
Kth(S, k) == CHOOSE x \in S : Cardinality({ y \in S : y < x }) = k - 1

\* the sum of the fee_entries counts of the first k reward blocks
RECURSIVE CountsBefore(_, _)
CountsBefore(rbs, k) == IF k = 0 THEN 0 ELSE CountsBefore(rbs, k - 1) + rbs[k].fee_entries

\* the entries the oracle holds for the reward log of a reward block
OracleEntries(rb) == EntryLists[CraftOracle[Take(rb.receipt.logs[rb.log_index + 1].data, 32)]]

\* C21: a payload that build_payload returns holds the headers' encodings in
\* input order, one reward block per block with receipts whose block_index
\* is that block's position (so the indices increase strictly and stay in
\* the header range), and a fee blob of 36 bytes per counted entry in which
\* each reward block's entries start after those of the earlier ones
C21_PayloadWellFormed ==
    (built # <<>> /\ built.at = "payload") =>
        LET p == built.payload
            rbs == built.payload.reward_blocks
        IN  /\ p.headers = HeadersFrom(built.blocks, 1)
            /\ Len(rbs) = Cardinality(WithReceipts(built.blocks))
            /\ \A k \in 1..Len(rbs) :
                  /\ rbs[k].block_index = Kth(WithReceipts(built.blocks), k)
                  /\ rbs[k].block_index < Len(built.blocks)
                  /\ k > 1 => rbs[k - 1].block_index < rbs[k].block_index
                  /\ rbs[k].fee_entries = Len(OracleEntries(rbs[k]))
                  /\ SubSeq(p.fee_entries, 36 * CountsBefore(rbs, k - 1) + 1,
                            36 * CountsBefore(rbs, k))
                     = EntryBytes(OracleEntries(rbs[k]))
            /\ 36 * CountsBefore(rbs, Len(rbs)) = Len(p.fee_entries)

\* a payload of three blocks was built whose first block has no receipts and
\* whose two reward blocks both have fee entries
C21_Witness ==
    /\ built # <<>>
    /\ built.at = "payload"
    /\ Len(built.blocks) = 3
    /\ built.blocks[1].receipts.kind = 0
    /\ Len(built.payload.reward_blocks) = 2
    /\ built.payload.reward_blocks[1].block_index = 1
    /\ built.payload.reward_blocks[1].fee_entries = 1
    /\ built.payload.reward_blocks[2].fee_entries = 3


\* ------------------------------------------------ the sponge's attributes

\* the bytes absorbed since creation or the last reset
RECURSIVE Absorbed(_)
Absorbed(ins) == IF Len(ins) = 0 THEN 0 ELSE Head(ins).n + Absorbed(Tail(ins))

\* C22: in every state of a Keccak256 the offset is below 136 and is the
\* number of bytes absorbed since creation or the last reset, modulo 136
C22_OffsetIsAbsorbedModRate ==
    /\ keccak.offset >= 0
    /\ keccak.offset < 136
    /\ keccak.offset = Absorbed(fed) % 136

\* two updates that together pass a block boundary and leave an open block
C22_Witness ==
    /\ Len(fed) = 2
    /\ fed[1].n > 0
    /\ fed[1].n < 136
    /\ Absorbed(fed) > 136
    /\ keccak.offset = 2

\* the step is an update (not complete) of the sponge
IsUpdateStep == Len(fed') = Len(fed) + 1

\* the step is an update whose input does not fill the open block
IsPartialStep == IsUpdateStep /\ fed'[Len(fed')].n < 136 - keccak.offset

\* state byte i after a partial update, in first-block mode and after it
PartialByte(i) ==
    IF i >= fed'[Len(fed')].n THEN keccak.state[i]
    ELSE IF keccak.first_block THEN Bytes(fed'[Len(fed')])[i + 1]
    ELSE Xor(keccak.state[i], Bytes(fed'[Len(fed')])[i + 1])

\* C23: the first-block flag is set exactly while fewer than 136 bytes were
\* absorbed since creation or the last reset (no permutation applied); an
\* update that stays in the block writes its bytes while the flag is set and
\* XORs them once it is cleared; a cleared flag stays so until the reset
C23_FirstBlockFlag ==
    /\ [](keccak.first_block <=> Absorbed(fed) < 136)
    /\ [][/\ IsPartialStep =>
                /\ keccak'.first_block = keccak.first_block
                /\ \A i \in 0..(STATE_BYTES - 1) : keccak'.state[i] = PartialByte(i)
          /\ (~keccak.first_block /\ IsUpdateStep) => ~keccak'.first_block
          /\ (~keccak.first_block /\ keccak'.first_block) => fed' = <<>>]_vars

\* a short update arrived after a whole block was absorbed: its bytes were
\* XORed into the permuted state
C23_Witness ==
    /\ Len(fed) = 2
    /\ fed[1].n = 136
    /\ fed[2].n = 1
    /\ ~keccak.first_block


\* ------------------------------------------------------- the fee cursor

\* the sum of the fee_entries counts of the first k reward blocks of the
\* payload
RECURSIVE CountsOf(_)
CountsOf(k) == IF k = 0 THEN 0 ELSE CountsOf(k - 1) + payload.reward_blocks[k].fee_entries

\* the reward blocks the aggregator has consumed
Consumed(g) == g.agg.reward_blocks - 1

\* the aggregator has taken the slice of the last reward block it consumed
Sliced(g) == Consumed(g) >= 1 /\ g.status \notin {"log_index", "address"}

\* C24: the slice taken for the k-th consumed reward block is bytes
\* [36 S, 36 (S + c)) of payload.fee_entries, c the block's count and S the
\* sum of the counts of the blocks consumed before it; the cursor never
\* decreases, a header without a reward block leaves it unchanged, and the
\* slice of a block starts where the slice of the block before it ended
C24_FeeCursor ==
    /\ [](guest # <<>> =>
            /\ Sliced(guest) =>
                  /\ guest.agg.fee_slice.from = 36 * CountsOf(Consumed(guest) - 1)
                  /\ guest.agg.fee_slice.to = 36 * CountsOf(Consumed(guest))
                  /\ guest.agg.fee_entry_offset = CountsOf(Consumed(guest))
            /\ (Consumed(guest) >= 1 /\ ~Sliced(guest)) =>
                  guest.agg.fee_entry_offset = CountsOf(Consumed(guest) - 1))
    /\ [][guest # <<>> =>
            /\ guest'.agg.fee_entry_offset >= guest.agg.fee_entry_offset
            /\ Consumed(guest') = Consumed(guest) =>
                  /\ guest'.agg.fee_entry_offset = guest.agg.fee_entry_offset
                  /\ guest'.agg.fee_slice = guest.agg.fee_slice
            /\ (Consumed(guest') # Consumed(guest) /\ Sliced(guest')) =>
                  /\ Consumed(guest') = Consumed(guest) + 1
                  /\ guest'.agg.fee_slice.from = guest.agg.fee_slice.to
                  /\ guest'.agg.fee_slice.to
                     = guest.agg.fee_slice.to
                       + 36 * payload.reward_blocks[Consumed(guest')].fee_entries]_vars

\* the second reward block, of one entry, was consumed after a first block of
\* three entries: its slice is bytes 108 to 144
C24_Witness ==
    /\ guest # <<>>
    /\ guest.status = "run"
    /\ Consumed(guest) = 2
    /\ guest.agg.fee_slice = [from |-> 108, to |-> 144]
    /\ guest.agg.fee_entry_offset = 4


\* ------------------------------------------- single steps of the verifier

\* the longest path of a step, in nibbles, and the longest leaf value
MaxNibbles == 64
LongValue == 300

\* the running root handed to a step of the loop
StepRoot == Msg(7, 32)

\* child i of a branch is present
Present(branch_map, i) == BitAnd(branch_map, 2^i) # 0

\* the branch maps tried with an index: none, the index alone, all, all but
\* the index, the first and the last child, every second child
StepMaps(index) ==
    {0, 2^index, 65535, 65535 - 2^index, 1, 32768, 21845}

\* child i as a stream carries it: its bytes, after their length in four
\* bytes when the branch is weird
StepChild(in, i) ==
    (IF in.weird THEN BeFixed(in.child_len, 4) ELSE <<>>) \o Msg(i, in.child_len)

\* the children of lo..hi-1 that are present and are not the index's
RECURSIVE StepChildren(_, _, _)
StepChildren(in, lo, hi) ==
    IF lo >= hi THEN <<>>
    ELSE IF hi = lo + 1
    THEN IF Present(in.branch_map, lo) /\ lo # in.index THEN StepChild(in, lo) ELSE <<>>
    ELSE StepChildren(in, lo, (lo + hi) \div 2) \o StepChildren(in, (lo + hi) \div 2, hi)

\* the RLP of child i of the branch node a stream describes
StepChildRlp(in, i) ==
    IF i = in.index THEN <<B(160)>> \o StepRoot
    ELSE IF ~Present(in.branch_map, i) THEN <<B(128)>>
    ELSE Flatten(encode_str_header(in.child_len)) \o Msg(i, in.child_len)

RECURSIVE StepChildrenRlp(_, _, _)
StepChildrenRlp(in, lo, hi) ==
    IF hi = lo + 1 THEN StepChildRlp(in, lo)
    ELSE StepChildrenRlp(in, lo, (lo + hi) \div 2)
         \o StepChildrenRlp(in, (lo + hi) \div 2, hi)

\* the payload of the branch node a stream describes: sixteen children and
\* the empty value
StepBranchPayload(in) == StepChildrenRlp(in, 0, 16) \o <<B(128)>>

\* the bytes of a step after the leaf: the control byte and the node
StepStream(in) ==
    IF in.kind = "branch"
    THEN <<B(BRANCH_NODE_FLAG + (IF in.weird THEN WEIRD_BRANCHES_FLAG ELSE 0) + in.index)>>
         \o BeFixed(in.branch_map, 2)
         \o (IF in.weird THEN BeFixed(Len(StepBranchPayload(in)), 4) ELSE <<>>)
         \o StepChildren(in, 0, 16)
    ELSE (IF in.kind = "extension" THEN <<B(EXTENSION_NODE_FLAG)>> ELSE <<>>)
         \o <<B(in.nib)>>
         \o (IF in.nib % 2 = 1 THEN <<B(in.odd_nibble)>> ELSE <<>>)
         \o Msg(5, in.nib \div 2)

StepInput(kind, weird, index, branch_map, child_len, nib, odd_nibble, value_len) ==
    [kind |-> kind, weird |-> weird, index |-> index, branch_map |-> branch_map,
     child_len |-> child_len, nib |-> nib, odd_nibble |-> odd_nibble,
     value_len |-> value_len]

StepInputs ==
    UNION { { StepInput("branch", FALSE, index, branch_map, 32, 0, 0, 32) :
                branch_map \in StepMaps(index) } : index \in 0..15 }
    \cup UNION { { StepInput("branch", TRUE, index, branch_map, child_len, 0, 0, 32) :
                branch_map \in StepMaps(index), child_len \in {0, 5, 32, 60} } :
              index \in 0..15 }
    \cup { StepInput("leaf", FALSE, 0, 0, 0, nib, odd_nibble, value_len) :
        nib \in 0..MaxNibbles, odd_nibble \in {0, 15},
        value_len \in {0, 1, 32, 55, 56, LongValue} }
    \cup { StepInput("extension", FALSE, 0, 0, 0, nib, odd_nibble, 32) :
        nib \in 0..MaxNibbles, odd_nibble \in {0, 15} }

StepInit ==
    /\ KeccakIdle
    /\ LensIdle
    /\ GuestIdle
    /\ FeeIdle
    /\ BuiltIdle
    /\ \E in \in StepInputs :
          /\ in.nib % 2 = 0 => in.odd_nibble = 0
          /\ trie = [at |-> "step", in |-> in, proof |-> StepStream(in),
                     value |-> IF in.kind = "leaf" THEN Msg(9, in.value_len) ELSE StepRoot,
                     node |-> <<>>]

StepHashed(t, node) ==
    [t EXCEPT !.at = IF node.panic THEN "panic" ELSE "hashed", !.node = node]

\* hash_leaf(&mut proof, encoded_receipt.as_ref())
StepLeaf ==
    /\ trie # <<>>
    /\ trie.at = "step"
    /\ trie.in.kind = "leaf"
    /\ trie' = StepHashed(trie, ChunksNodeWithPath(trie.proof, LEAF_PATH_FLAG, trie.value))
    /\ UNCHANGED <<keccakVars, lensVars, guestVars, fee, built>>

\* one turn of the loop of receipt_trie_root_from_proof
StepLoop ==
    /\ trie # <<>>
    /\ trie.at = "step"
    /\ trie.in.kind # "leaf"
    /\ trie' = StepHashed(trie, ChunksStep(trie.proof, trie.value))
    /\ UNCHANGED <<keccakVars, lensVars, guestVars, fee, built>>

StepNext == StepLeaf \/ StepLoop

SpecStep == StepInit /\ [][StepNext]_vars

\* the bytes a step gave to the hasher, the payload length its list header
\* declares and the bytes that follow the header
StepBytes == Flatten(trie.node.chunks)
StepDeclared == DecodeHead(StepBytes).len
StepPayload == Len(StepBytes) - (DecodeHead(StepBytes).start - 1)

\* the children of a branch step that are hashed as 32-byte strings: the
\* present ones and the one at the index
StepHashes ==
    Cardinality({i \in 0..15 : Present(trie.in.branch_map, i) \/ i = trie.in.index})

StepIsBranch == trie # <<>> /\ trie.at = "hashed" /\ trie.in.kind = "branch" /\ ~trie.in.weird

\* C25 as stated: for every branch step that is not weird, any index and any
\* branch map, the payload length the list header declares,
\* popcount(branch_map) * 32 + 17, is the number of payload bytes hashed: 33
\* for each present child and for the root at the index, 1 for each absent
\* child and 1 for the value
C25_BranchLengthIsHashed ==
    StepIsBranch =>
        /\ StepDeclared = count_ones(trie.in.branch_map) * 32 + 17
        /\ StepPayload = 33 * StepHashes + (16 - StepHashes) + 1
        /\ StepDeclared = StepPayload

\* C25 amended: the declared length is the number of payload bytes hashed when
\* the branch map has the index's bit; when it has not, the root is hashed
\* all the same and the payload is 32 bytes longer than declared
C25_BranchLengthWhenIndexPresent ==
    StepIsBranch =>
        /\ StepDeclared = count_ones(trie.in.branch_map) * 32 + 17
        /\ StepPayload = 33 * StepHashes + (16 - StepHashes) + 1
        /\ Present(trie.in.branch_map, trie.in.index) => StepDeclared = StepPayload
        /\ ~Present(trie.in.branch_map, trie.in.index) => StepPayload = StepDeclared + 32

\* a branch at index 3 whose only child is the root: 49 bytes declared and
\* hashed
C25_Witness ==
    /\ StepIsBranch
    /\ trie.in.index = 3
    /\ trie.in.branch_map = 8
    /\ StepDeclared = 49
    /\ StepPayload = 49


StepIsPath == trie # <<>> /\ trie.at = "hashed" /\ trie.in.kind \in {"leaf", "extension"}

\* the key of a path step: the bytes after the first, the first byte, whether
\* it is hashed under a string header, and the bytes hashed for it
StepKeyBytes == trie.in.nib \div 2
StepFirstByte ==
    (IF trie.in.kind = "leaf" THEN LEAF_PATH_FLAG ELSE EXTENSION_PATH_FLAG)
    + (IF trie.in.nib % 2 = 1 THEN ODD_NIBBLES_FLAG + trie.in.odd_nibble ELSE 0)
StepKeyHeader == StepKeyBytes >= 1 \/ StepFirstByte = 0 \/ StepFirstByte >= 128
StepKeyHashed ==
    (IF StepKeyHeader THEN length_of_length(StepKeyBytes + 1) ELSE 0) + 1 + StepKeyBytes

\* the declared length of a path step, as the claim has it
StepPathLength ==
    encoded_length(StepKeyBytes + 1) - (IF StepKeyBytes = 0 THEN 1 ELSE 0)
    + encoded_length(Len(trie.value))

\* C26 as stated: for every leaf or extension step of 0 to 64 nibbles and
\* every value length, the list payload length declared,
\* encoded_length(key_bytes + 1) - (key_bytes = 0 ? 1 : 0) +
\* encoded_length(|value|), is the number of bytes hashed for the key (under a
\* string header exactly when key_bytes >= 1 or the first byte is 0x00 or
\* at least 0x80) and for the value as an RLP string
C26_PathLengthIsHashed ==
    StepIsPath =>
        /\ StepDeclared = StepPathLength
        /\ StepPayload = StepKeyHashed + encoded_length(Len(trie.value))
        /\ StepDeclared = StepPayload

\* C26 amended: the same but for the extension step of no nibble, whose key
\* is the byte 0x00 alone: it is hashed under a string header that the
\* declared length does not count, and the payload is 1 byte longer
C26_PathLengthButEmptyExtension ==
    StepIsPath =>
        /\ StepDeclared = StepPathLength
        /\ StepPayload = StepKeyHashed + encoded_length(Len(trie.value))
        /\ (trie.in.kind = "extension" /\ trie.in.nib = 0) => StepPayload = StepDeclared + 1
        /\ (trie.in.kind = "leaf" \/ trie.in.nib > 0) => StepDeclared = StepPayload

\* a leaf of one nibble over a value of 32 bytes: the key is the byte 0x3f
\* with no header, 34 bytes declared and hashed
C26_Witness ==
    /\ StepIsPath
    /\ trie.in.kind = "leaf"
    /\ trie.in.nib = 1
    /\ trie.in.odd_nibble = 15
    /\ Len(trie.value) = 32
    /\ ~StepKeyHeader
    /\ StepDeclared = 34
    /\ StepPayload = 34


StepIsWeird == trie # <<>> /\ trie.at # "step" /\ trie.in.kind = "branch" /\ trie.in.weird

\* a weird branch step was read as its stream was written: to the end, and
\* hashed as the list of the declared length over the children, each present
\* child other than the index's under the length that precedes it
StepWeirdAsWritten ==
    /\ trie.at = "hashed"
    /\ trie.node.proof = <<>>
    /\ StepBytes
       = Flatten(encode_list_header(Len(StepBranchPayload(trie.in))))
         \o StepBranchPayload(trie.in)

\* C27: a weird branch step (control byte 0x30 | index) is read as the branch
\* map, the total payload length in four big-endian bytes, and then, for
\* every present child i other than the index, below it or above it, in
\* ascending order, a length in four big-endian bytes and that many bytes
C27_WeirdChildrenLengthPrefixed == StepIsWeird => StepWeirdAsWritten

\* the part of C27 that holds: the weird branch steps with no present child
\* below the index
C27_WeirdChildrenAboveIndex ==
    (StepIsWeird /\ \A i \in 0..15 : (i < trie.in.index => ~Present(trie.in.branch_map, i)))
        => StepWeirdAsWritten


\* ------------------------------------------------------------- TriePath

\* the paths of every length up to MaxPathLen, and the lengths around the
\* places where the u8 arithmetic of nibbles() wraps
MaxPathLen == 40
LongPathLens == {128, 129, 130, 160, 161, 162, 255, 256, 257, 258, 289, 290}

\* the first bytes of a path: extension and leaf, even and odd
PathHeads == {0, 26, 32, 63}

PathInit ==
    /\ KeccakIdle
    /\ LensIdle
    /\ GuestIdle
    /\ FeeIdle
    /\ BuiltIdle
    /\ \E head \in PathHeads, len \in (1..MaxPathLen) \cup LongPathLens,
          overflow_checks \in BOOLEAN :
          trie = [at |-> "path", path |-> <<B(head)>> \o Msg(3, len - 1),
                  overflow_checks |-> overflow_checks, nibbles |-> 0, bytes |-> 0]

\* TriePath::new(path) and after it nibbles() and bytes() of the path made
PathNew ==
    /\ trie # <<>>
    /\ trie.at = "path"
    /\ trie' = IF IsTriePath(trie.path, trie.overflow_checks)
               THEN [trie EXCEPT !.at = "made", !.nibbles = nibbles(trie.path),
                                 !.bytes = bytes(trie.path)]
               ELSE [trie EXCEPT !.at = "panic"]
    /\ UNCHANGED <<keccakVars, lensVars, guestVars, fee, built>>

PathNext == PathNew

SpecPath == PathInit /\ [][PathNext]_vars

\* the nibbles and the bytes a path holds after its flags
TrueNibbles(path) == 2 * (Len(path) - 1) + (IF is_odd(path) THEN 1 ELSE 0)
TrueBytes(path) == (Len(path) - 1) + (IF is_odd(path) THEN 1 ELSE 0)

\* C29: TriePath::new aborts for every path of more than 64 nibbles, whatever
\* its length in bytes, so that every TriePath made has at most 64 nibbles
\* and nibbles() and bytes() give its true counts
C29_LongPathsAbort ==
    (trie # <<>> /\ trie.at # "path") =>
        /\ TrueNibbles(trie.path) > 64 => trie.at = "panic"
        /\ trie.at = "made" =>
              /\ TrueNibbles(trie.path) <= 64
              /\ trie.nibbles = TrueNibbles(trie.path)
              /\ trie.bytes = TrueBytes(trie.path)

\* the part of C29 that holds: the paths of at most 128 bytes
C29_ShortPathsAbort ==
    (trie # <<>> /\ trie.at # "path" /\ Len(trie.path) <= 128) =>
        /\ TrueNibbles(trie.path) > 64 <=> trie.at = "panic"
        /\ trie.at = "made" =>
              /\ trie.nibbles = TrueNibbles(trie.path)
              /\ trie.bytes = TrueBytes(trie.path)

\* a path of 257 bytes is made in a build with overflow checks, with no
\* nibble for its 512
C29_LongPathMade ==
    /\ trie # <<>>
    /\ trie.at = "made"
    /\ trie.overflow_checks
    /\ Len(trie.path) = 257
    /\ trie.nibbles = 0


\* --------------------------------------------- ProofBuilder and verifier

\* the operations after the leaf
MaxOps == 2

\* a list of n nodes: 32 bytes for the children of the set, empty otherwise
Nodes(present, n) == [i \in 1..n |-> IF (i - 1) \in present THEN Msg(10 * i, 32) ELSE <<>>]

\* the leaf paths: no nibble, one, four, 63, 64, 66 (refused), an extension's
\* path (refused), 129 and 257 bytes
BuilderLeaves ==
    { <<B(32)>>, <<B(58)>>, <<B(32)>> \o Msg(3, 2), <<B(49)>> \o Msg(3, 31),
      <<B(32)>> \o Msg(3, 32), <<B(32)>> \o Msg(3, 33), <<B(0)>>,
      <<B(32)>> \o Msg(3, 128), <<B(32)>> \o Msg(3, 256) }

\* the operations: extensions of no nibble, one, two, a leaf's path (refused)
\* and 161 bytes; branches over 16 children, over 17 nodes as a branch node
\* decodes, with the index's child empty, over short lists and none, with a
\* hash as 17th node, with a node of 5 bytes (refused), at index 16 (refused)
BuilderOps ==
    { [kind |-> "extension", path |-> path, index |-> 0, nodes |-> <<>>] :
        path \in { <<B(0)>>, <<B(26)>>, <<B(0)>> \o Msg(4, 1), <<B(32)>>,
                   <<B(0)>> \o Msg(4, 160) } }
    \cup
    { [kind |-> "branch", path |-> <<>>, index |-> b[1], nodes |-> b[2]] :
        b \in { <<0, Nodes({0}, 16)>>, <<3, Nodes({0, 3, 5, 15}, 17)>>,
                <<3, Nodes({0, 5}, 16)>>, <<15, <<>> >>, <<2, Nodes({0, 1}, 2)>>,
                <<1, Nodes({1, 16}, 17)>>, <<1, <<Msg(1, 5)>> >>,
                <<16, Nodes({0}, 16)>> } }

\* the receipt under the leaf
BuilderValue == Msg(9, 40)

BuilderInit ==
    /\ KeccakIdle
    /\ LensIdle
    /\ GuestIdle
    /\ FeeIdle
    /\ BuiltIdle
    /\ \E leaf \in BuilderLeaves, ops \in SeqsUpTo(BuilderOps, MaxOps),
          overflow_checks \in BOOLEAN :
          trie = [at |-> "new", overflow_checks |-> overflow_checks, leaf |-> leaf,
                  ops |-> ops, done |-> 0, pb |-> BuilderPanic, marks |-> <<>>,
                  parse |-> <<>>]

\* the builder after an operation, and the length of its bytes
BuilderDone(t, pb, done) ==
    [t EXCEPT !.at = IF pb.panic THEN "builder_panic" ELSE "building",
              !.pb = pb, !.done = done, !.marks = Append(@, Len(pb.bytes))]

\* ProofBuilder::with_leaf_rest_path_compact(path)
BuilderLeaf ==
    /\ trie # <<>>
    /\ trie.at = "new"
    /\ trie' = BuilderDone(trie, with_leaf_rest_path_compact(trie.leaf, trie.overflow_checks), 0)
    /\ UNCHANGED <<keccakVars, lensVars, guestVars, fee, built>>

\* builder.add_extension(path)
BuilderExtension ==
    /\ trie # <<>>
    /\ trie.at = "building"
    /\ trie.done < Len(trie.ops)
    /\ trie.ops[trie.done + 1].kind = "extension"
    /\ trie' = BuilderDone(trie, add_extension(trie.pb, trie.ops[trie.done + 1].path,
                                               trie.overflow_checks), trie.done + 1)
    /\ UNCHANGED <<keccakVars, lensVars, guestVars, fee, built>>

\* builder.add_branch(index, nodes)
BuilderBranch ==
    /\ trie # <<>>
    /\ trie.at = "building"
    /\ trie.done < Len(trie.ops)
    /\ trie.ops[trie.done + 1].kind = "branch"
    /\ trie' = BuilderDone(trie, add_branch(trie.pb, trie.ops[trie.done + 1].index,
                                            trie.ops[trie.done + 1].nodes,
                                            trie.overflow_checks), trie.done + 1)
    /\ UNCHANGED <<keccakVars, lensVars, guestVars, fee, built>>

\* a step as the verifier took it: the control byte (none for the leaf), the
\* bytes read after it, the value hashed under the node and the bytes hashed
ParseStep(control, proof, n, value) ==
    [control |-> control, read |-> Len(proof) - Len(n.proof),
     body |-> Take(proof, Len(proof) - Len(n.proof)), value |-> value,
     hashed |-> Flatten(n.chunks)]

RECURSIVE ParseLoop(_, _, _)

\* the body of the loop after the node's function has read its step
ParseHashed(tbl, proof, current_root, steps, n) ==
    IF n.panic
    THEN [panic |-> TRUE, root |-> current_root, steps |-> steps, rest |-> proof]
    ELSE ParseLoop(HashChunks(tbl, n.chunks), n.proof,
                   Append(steps, ParseStep(Val(proof[1]), Tail(proof), n, current_root)))

\* the loop of receipt_trie_root_from_proof, with the steps it took (h: the
\* hash of the node before and the table after it)
ParseLoop(h, proof, steps) ==
    IF Len(proof) = 0
    THEN [panic |-> FALSE, root |-> h.out, steps |-> steps, rest |-> proof]
    ELSE ParseHashed(h.tbl, proof, h.out, steps, ChunksStep(proof, h.out))

\* hash_leaf and the loop after it
ParseLeaf(proof, encoded_receipt, leaf) ==
    IF leaf.panic
    THEN [panic |-> TRUE, root |-> <<>>, steps |-> <<>>, rest |-> proof]
    ELSE ParseLoop(HashChunks(<<>>, leaf.chunks), leaf.proof,
                   <<ParseStep(-1, proof, leaf, encoded_receipt)>>)

\* receipt_trie_root_from_proof(proof, encoded_receipt), with the steps taken
ParseProof(proof, encoded_receipt) ==
    ParseLeaf(proof, encoded_receipt,
              ChunksNodeWithPath(proof, LEAF_PATH_FLAG, encoded_receipt))

BuilderParsed(t, parse) ==
    [t EXCEPT !.at = IF parse.panic THEN "verifier_panic" ELSE "parsed", !.parse = parse]

\* receipt_trie_root_from_proof(builder.build(), encoded_receipt)
BuilderVerify ==
    /\ trie # <<>>
    /\ trie.at = "building"
    /\ trie.done = Len(trie.ops)
    /\ trie' = BuilderParsed(trie, ParseProof(trie.pb.bytes, BuilderValue))
    /\ UNCHANGED <<keccakVars, lensVars, guestVars, fee, built>>

BuilderNext == BuilderLeaf \/ BuilderExtension \/ BuilderBranch \/ BuilderVerify

SpecBuilder == BuilderInit /\ [][BuilderNext]_vars

\* the bytes a step hashed after the list header
HashedPayload(st) == SubSeq(st.hashed, DecodeHead(st.hashed).start, Len(st.hashed))

\* a step took the path an operation wrote: its nibble count, its odd nibble
\* and its bytes, and hashed the path before the value
SamePath(st, path) ==
    /\ Val(st.body[1]) = TrueNibbles(path)
    /\ st.read = 1 + TrueBytes(path)
    /\ is_odd(path) => Val(st.body[2]) = BitAnd(Val(path[1]), NIBBLE_MASK)
    /\ SubSeq(st.body, st.read - Len(path) + 2, st.read) = Tail(path)
    /\ SubSeq(HashedPayload(st), Len(HashedPayload(st)) - Len(path)
                  - encoded_length(Len(st.value)) + 1, Len(HashedPayload(st)))
       = path \o Flatten(encode_str_header(Len(st.value))) \o st.value

\* the children lo..hi-1 of a list of nodes as a branch node holds them
RECURSIVE NodesRlp(_, _, _)
NodesRlp(nodes, lo, hi) ==
    IF lo >= hi THEN <<>>
    ELSE IF hi = lo + 1
    THEN IF lo + 1 <= Len(nodes) /\ Len(nodes[lo + 1]) = 32
         THEN <<B(160)>> \o nodes[lo + 1] ELSE <<B(128)>>
    ELSE NodesRlp(nodes, lo, (lo + hi) \div 2) \o NodesRlp(nodes, (lo + hi) \div 2, hi)

\* the children of nodes that are 32 bytes long
HashesOf(nodes) == {i \in 0..15 : i + 1 <= Len(nodes) /\ Len(nodes[i + 1]) = 32}

\* a step took the branch an operation wrote: its index, its map and its
\* siblings in ascending order, the child at the index left out, and hashed
\* them around the running root
SameBranch(st, op) ==
    /\ BitAnd(st.control, BRANCH_NODE_INDEX_MASK) = op.index
    /\ BitAnd(st.control, WEIRD_BRANCHES_FLAG) = 0
    /\ {i \in 0..15 : Present(BigEndian(Take(st.body, 2)), i)} = HashesOf(op.nodes)
    /\ st.read = 2 + 32 * Cardinality(HashesOf(op.nodes) \ {op.index})
    /\ HashedPayload(st)
       = NodesRlp(op.nodes, 0, op.index) \o <<B(160)>> \o st.value
         \o NodesRlp(op.nodes, op.index + 1, 16) \o <<B(128)>>

\* the kind of a step, from its control byte
StepKind(st) ==
    IF st.control < 0 THEN "leaf"
    ELSE IF BitAnd(st.control, PROOF_PART_TYPE_MASK) = BRANCH_NODE_FLAG THEN "branch"
    ELSE "extension"

\* the bytes taken by the first k steps, control bytes included
RECURSIVE ReadBy(_, _)
ReadBy(steps, k) ==
    IF k = 0 THEN 0
    ELSE ReadBy(steps, k - 1) + steps[k].read + (IF steps[k].control < 0 THEN 0 ELSE 1)

\* the verifier read the stream as the builder's operations wrote it: it did
\* not run off the stream, it read one step for each operation, each step
\* the bytes its operation wrote and what the operation was given, and it
\* left no byte
ParsedAsBuilt ==
    /\ trie.at = "parsed"
    /\ trie.parse.rest = <<>>
    /\ Len(trie.parse.steps) = 1 + Len(trie.ops)
    /\ \A k \in 1..Len(trie.parse.steps) :
          /\ ReadBy(trie.parse.steps, k) = trie.marks[k]
          /\ IF k = 1
             THEN StepKind(trie.parse.steps[k]) = "leaf"
                  /\ SamePath(trie.parse.steps[k], trie.leaf)
             ELSE /\ StepKind(trie.parse.steps[k]) = trie.ops[k - 1].kind
                  /\ IF trie.ops[k - 1].kind = "extension"
                     THEN SamePath(trie.parse.steps[k], trie.ops[k - 1].path)
                     ELSE SameBranch(trie.parse.steps[k], trie.ops[k - 1])

BuilderVerified == trie # <<>> /\ trie.at \in {"parsed", "verifier_panic"}

BuilderInRange ==
    /\ Len(trie.leaf) <= 128
    /\ \A k \in 1..Len(trie.ops) :
          /\ Len(trie.ops[k].path) <= 128
          /\ ~shift_overflows(trie.ops[k].nodes)

MaxChain == 4

\* PartialHeader::hash: the Keccak-256 of the header's encoding
PartialHash(tbl, header) == RefKeccak(tbl, EncodeHeader(header))

\* a list of headers after another: header i has the hash of the one before
\* as parent_hash where links[i] holds (the first header: last_hash), and a
\* hash of no header otherwise; every header is hashed into the table
RECURSIVE ChainFrom(_, _, _, _, _)
ChainFrom(tbl, parent, links, tailLen, headers) ==
    IF Len(headers) = Len(links) THEN [tbl |-> tbl, headers |-> headers]
    ELSE LET i == Len(headers) + 1
             header == [HeaderAt(i, tailLen) EXCEPT
                           !.parent_hash = IF links[i] THEN parent ELSE Msg(77, 32)]
             h == PartialHash(tbl, header)
         IN  ChainFrom(h.tbl, h.out, links, tailLen, Append(headers, header))

ChainInit ==
    /\ KeccakIdle
    /\ LensIdle
    /\ GuestIdle
    /\ FeeIdle
    /\ TrieIdle
    /\ \E links \in SeqsUpTo(BOOLEAN, MaxChain), tailLen \in {0, 70} :
          LET last_hash == Msg(201, 32)
              chain == ChainFrom(<<>>, last_hash, links, tailLen, <<>>)
          IN  built = [at |-> "headers", last_hash |-> last_hash, tbl |-> chain.tbl,
                       headers |-> chain.headers, res |-> <<>>]

\* a mutant of the loop's test: no parent_hash is compared
ParentMismatch_Never(header, last_hash) == FALSE

\* verify_hash_chain, line 18: header.parent_hash != last_hash
ParentMismatch(header, last_hash) == header.parent_hash # last_hash

\* verify_hash_chain, the loop from header i on (from 1)
RECURSIVE VerifyFrom(_, _, _, _)
VerifyFrom(tbl, last_hash, headers, i) ==
    IF i > Len(headers) THEN [tbl |-> tbl, some |-> TRUE, hash |-> last_hash]
    ELSE IF ParentMismatch(headers[i], last_hash)
    THEN [tbl |-> tbl, some |-> FALSE, hash |-> <<>>]
    ELSE LET h == PartialHash(tbl, headers[i])
         IN  VerifyFrom(h.tbl, h.out, headers, i + 1)

\* verify_hash_chain(last_hash, headers): Some(hash) or None
verify_hash_chain(tbl, last_hash, headers) == VerifyFrom(tbl, last_hash, headers, 1)

\* a call of verify_hash_chain with any last_hash
ChainVerify ==
    /\ built # <<>>
    /\ built.at = "headers"
    /\ built' = [built EXCEPT !.at = "verified",
                    !.res = verify_hash_chain(built.tbl, built.last_hash, built.headers)]
    /\ UNCHANGED <<keccakVars, lensVars, guestVars, fee, trie>>

\* the script's call: last_hash is blocks[0].header.parent_hash, and
\* res.unwrap() is compared with the last header's hash
ChainScript ==
    /\ built # <<>>
    /\ built.at = "headers"
    /\ built' =
         IF Len(built.headers) = 0 THEN [built EXCEPT !.at = "script_panic"]
         ELSE LET res == verify_hash_chain(built.tbl, built.headers[1].parent_hash,
                                           built.headers)
              IN  [built EXCEPT !.at = IF res.some THEN "script_verified"
                                       ELSE "script_panic",
                                !.last_hash = built.headers[1].parent_hash,
                                !.res = res]
    /\ UNCHANGED <<keccakVars, lensVars, guestVars, fee, trie>>

ChainNext == ChainVerify \/ ChainScript

SpecChain == ChainInit /\ [][ChainNext]_vars

\* header i of the list has as parent_hash the hash of the header before it,
\* the first one the caller's last_hash
LinkHolds(i) ==
    built.headers[i].parent_hash
    = IF i = 1 THEN built.last_hash
      ELSE PartialHash(built.tbl, built.headers[i - 1]).out

\* the result for a list whose links hold: the hash of the last header, or
\* last_hash for no header
ChainLast ==
    IF Len(built.headers) = 0 THEN built.last_hash
    ELSE PartialHash(built.tbl, built.headers[Len(built.headers)]).out

ChainVerified == built # <<>> /\ built.at \in {"verified", "script_verified", "script_panic"}

\* C30 as stated: verify_hash_chain ignores its first header, whose
\* parent_hash is not compared with last_hash: only the links between the
\* following headers make it return None, and it returns Some of the last
\* header's hash otherwise
C30_FirstHeaderIgnored ==
    (ChainVerified /\ Len(built.headers) >= 1) =>
        /\ built.res.some <=> \A i \in 2..Len(built.headers) : LinkHolds(i)
        /\ built.res.some => built.res.hash = ChainLast

\* C30 amended: verify_hash_chain compares the parent_hash of every header,
\* the first with last_hash: it returns None when any link is broken and
\* Some of the last header's hash otherwise (last_hash for no header); in the
\* script's call last_hash is the first header's parent_hash, so that there
\* only the following links can fail
C30_EveryHeaderChecked ==
    ChainVerified =>
        /\ Len(built.headers) >= 1 =>
              /\ built.res.some <=> \A i \in 1..Len(built.headers) : LinkHolds(i)
              /\ built.res.some => built.res.hash = ChainLast
        /\ (built.at = "verified" /\ Len(built.headers) = 0) =>
              built.res.some /\ built.res.hash = built.last_hash
        /\ (built.at # "verified" /\ Len(built.headers) >= 1) => LinkHolds(1)
        /\ built.at # "verified" =>
              (built.at = "script_verified" <=>
                  (Len(built.headers) >= 1
                   /\ \A i \in 2..Len(built.headers) : LinkHolds(i)))

\* three headers, the first with a parent_hash other than last_hash and the
\* others chained: None
C30_Witness ==
    /\ built # <<>>
    /\ built.at = "verified"
    /\ Len(built.headers) = 3
    /\ ~LinkHolds(1)
    /\ LinkHolds(2)
    /\ LinkHolds(3)
    /\ ~built.res.some


====
